---- MODULE Spec2Model ----
(***************************************************************************)
(* Landmark-driven jewelry placement of the betav2 try-on application.     *)
(*                                                                         *)
(* The module models                                                       *)
(*   - JewelryRenderer (src/src/utils/JewelryRenderer.js): the canvas      *)
(*     renderer with its per-slot smoothing cache, texture cache and the   *)
(*     five render methods;                                                *)
(*   - HandPoseDetector / FaceLandmarkDetector keypoint mapping            *)
(*     (src/src/models/*.js): processPredictions and extractKeypoints;     *)
(*   - ARVirtualTryOn drawFaceItem / drawHandItem and its frame loop,      *)
(*     startProcessing / processFrame                                      *)
(*     (src/src/components/ARVirtualTryOn.js).                             *)
(*                                                                         *)
(* Specifications, all from the same initial state:                        *)
(*   Spec      one JewelryRenderer on well-formed tracking points          *)
(*   SpecEdge  one JewelryRenderer on edge items and incomplete landmarks  *)
(*   SpecTwin  two JewelryRenderer instances fed the same calls            *)
(*   SpecAR    the component's frame processing, one frame per step        *)
(*   SpecLoop  the component's frame loops with their awaits               *)
(*   SpecMap   the detectors' extractKeypoints on raw predictions          *)
(*   SpecVector    HandPoseDetector.normalizeVector                        *)
(*   SpecDetector  a detector's initialize / detect / updateConfig         *)
(*   SpecApp   App's select / capture / results flow (src/unnamed/part_000)*)
(*                                                                         *)
(* JavaScript numbers are modelled as exact rationals [n, d] in lowest     *)
(* terms.  The landmark layouts used as inputs keep every square root and  *)
(* every atan2 the code takes exact (distances along one axis, directions  *)
(* that are multiples of 45 degrees).                                      *)
(***************************************************************************)
EXTENDS Integers, Sequences, FiniteSets, TLC

VARIABLES
    smoothedPositions,  \* JewelryRenderer.smoothedPositions
    lastRenderedType,   \* JewelryRenderer.lastRenderedType
    textures,           \* keys of JewelryRenderer.textures
    frame,              \* number of render calls made so far
    call,               \* the last operation on the renderer or the canvas, with its arguments
    pre,                \* smoothedPositions as they were when the last call began
    drawn,              \* canvas draws completed by the last call, in order
    threw,              \* the last call rejected / threw to its caller
    selectedItem,       \* ARVirtualTryOn: the selectedItem prop
    trackingType,       \* ARVirtualTryOn: trackingType state
    itemAdjustments,    \* ARVirtualTryOn: itemAdjustments state
    framesProcessed,    \* ARVirtualTryOn: framesProcessed state
    frameSkip,          \* ARVirtualTryOn: frameSkipRef.current
    closure,            \* props and state the running processFrame closed over
    detectionResult,    \* ARVirtualTryOn.processFrame: its local detectionResult
    arDrawn,            \* ARVirtualTryOn: overlay draws of the last processFrame
    mapping,            \* the last call of a detector function: which, its argument, its outcome
    twin,               \* two JewelryRenderer instances fed the same calls
    loop,               \* ARVirtualTryOn: the frame loops in flight, the canvas and the video
    detector,           \* a FaceLandmarkDetector or HandPoseDetector instance and the clock
    app                 \* App: its state and the processMedia calls in flight

vars == <<smoothedPositions, lastRenderedType, textures, frame, call, pre,
          drawn, threw, selectedItem, trackingType, itemAdjustments,
          framesProcessed, frameSkip, closure, detectionResult, arDrawn,
          mapping, twin, loop, detector, app>>

rendererVars == <<smoothedPositions, lastRenderedType, textures, frame, pre,
                  drawn, threw>>

arVars == <<selectedItem, trackingType, itemAdjustments, framesProcessed,
            frameSkip, closure, detectionResult, arDrawn>>

extVars == <<mapping, twin, loop, detector, app>>

(***************************************************************************)
(* Bounds of the model.                                                    *)
(***************************************************************************)
MaxFrames == 2

\* the camera delivers at most this many video frames
MaxVideoFrames == 3

\* at most this many startProcessing calls are made
MaxLoops == 2

\* the clock performance.now() is followed up to this many milliseconds
MaxClock == 250

\* at most this many processMedia calls are in flight at a time
MaxProcessing == 2

(***************************************************************************)
(* JavaScript numbers as exact rationals.                                  *)
(***************************************************************************)
Abs(a) == IF a < 0 THEN -a ELSE a

RECURSIVE GCD(_, _)
GCD(a, b) == IF b = 0 THEN a ELSE GCD(b, a % b)

Rat(n, d) ==
    LET s == IF d < 0 THEN -1 ELSE 1
        g == GCD(Abs(n), Abs(d))
    IN  [n |-> (s * n) \div g, d |-> (s * d) \div g]

Num(k) == [n |-> k, d |-> 1]

RAdd(a, b) ==
    LET g == GCD(a.d, b.d)
        l == (a.d \div g) * b.d
    IN  Rat(a.n * (l \div a.d) + b.n * (l \div b.d), l)

RNeg(a) == [n |-> -a.n, d |-> a.d]

RSub(a, b) == RAdd(a, RNeg(b))

RMul(a, b) ==
    LET g1 == GCD(Abs(a.n), b.d)
        g2 == GCD(Abs(b.n), a.d)
        h1 == IF g1 = 0 THEN 1 ELSE g1
        h2 == IF g2 = 0 THEN 1 ELSE g2
    IN  Rat((a.n \div h1) * (b.n \div h2), (a.d \div h2) * (b.d \div h1))

RDiv(a, b) == RMul(a, Rat(b.d, b.n))

RLt(a, b) == a.n * b.d < b.n * a.d

RMax(a, b) == IF RLt(a, b) THEN b ELSE a

RPos(a) == a.n > 0

RECURSIVE ISqrtFrom(_, _)
ISqrtFrom(n, k) == IF k * k > n THEN k - 1 ELSE ISqrtFrom(n, k + 1)

\* Math.sqrt; exact on the squares of rationals, which is all the layouts produce.
RSqrt(a) == Rat(ISqrtFrom(a.n, 0), ISqrtFrom(a.d, 0))

RSquare(a) == RMul(a, a)

\* Math.atan2(dy, dx) * (180 / Math.PI) on the directions that are multiples of
\* 45 degrees; any other direction has no value here and evaluating it is an error.
Atan2Deg(dy, dx) ==
    CASE dy.n = 0 /\ dx.n >= 0 -> Num(0)
      [] dy.n = 0 /\ dx.n < 0 -> Num(180)
      [] dx.n = 0 /\ dy.n > 0 -> Num(90)
      [] dx.n = 0 /\ dy.n < 0 -> Num(-90)
      [] dx.n > 0 /\ dy = dx -> Num(45)
      [] dx.n > 0 /\ dy = RNeg(dx) -> Num(-45)
      [] dx.n < 0 /\ dy = RNeg(dx) -> Num(135)
      [] dx.n < 0 /\ dy = dx -> Num(-135)

(***************************************************************************)
(* JavaScript values that may be absent.                                   *)
(***************************************************************************)
Undefined == [undefined |-> TRUE]   \* undefined / null object or point

None == [some |-> FALSE]            \* an absent numeric property
Some(v) == [some |-> TRUE, v |-> v]

Truthy(o) == o # Undefined

Pt(x, y, z) == [x |-> x, y |-> y, z |-> z]


(***************************************************************************)
(* Inputs: raw model predictions.  A prediction is described by a few      *)
(* parameters and expanded to its landmark array.                          *)
(*   hand: side, translation t of the whole hand, finger shape, length     *)
(*   face: translation t, length of the landmark array                     *)
(* The right hand has its wrist at (t, t, t), the palm along +x and the    *)
(* finger bases on the line x = t + 20; the left hand is its mirror image  *)
(* in y, moved 50 along x.  A straight finger runs along +x; a bent finger *)
(* folds back so that its tip sits beside its base.                        *)
(***************************************************************************)
Offsets == {0, 100}

FaceLengths == {478}

JointOffset(shape, j) ==
    IF shape = "straight"
    THEN <<10 * j, 0>>
    ELSE CASE j = 0 -> <<0, 0>>
           [] j = 1 -> <<10, 0>>
           [] j = 2 -> <<10, 10>>
           [] j = 3 -> <<0, 10>>

HandPoint(d, i) ==
    LET f == (i - 1) \div 4
        j == (i - 1) % 4
        rel == IF i = 0
               THEN <<0, 0>>
               ELSE <<20 + JointOffset(d.shape, j)[1],
                      10 * (f - 2) + JointOffset(d.shape, j)[2]>>
        mx == IF d.side = "Left" THEN 50 ELSE 0
        my == IF d.side = "Left" THEN -1 ELSE 1
    IN  Pt(Num(d.t + mx + rel[1]), Num(d.t + my * rel[2]), Num(d.t))

\* A landmark array is kept as its description [gen, d]; its entries are
\* computed when they are read.
HandPrediction(d) ==
    [handedness |-> d.side, keypoints |-> [gen |-> "hand", d |-> d]]

FaceRel(i) ==
    CASE i = 234 -> <<-40, 0>>
      [] i = 454 -> <<40, 0>>
      [] i = 93 -> <<-40, 10>>
      [] i = 323 -> <<40, 10>>
      [] i = 27 -> <<-30, -10>>
      [] i = 33 -> <<-20, -10>>
      [] i = 263 -> <<20, -10>>
      [] i = 152 -> <<0, 50>>
      [] i = 1 -> <<0, 10>>
      [] i = 13 -> <<0, 30>>
      [] i = 14 -> <<0, 35>>
      [] OTHER -> <<0, 0>>

\* the size of a described face: its layout is FaceRel scaled by k (1 unless given)
FaceScale(d) == IF "k" \in DOMAIN d THEN d.k ELSE 1

FacePoint(d, i) ==
    Pt(Num(d.t + FaceScale(d) * FaceRel(i)[1]), Num(d.t + FaceScale(d) * FaceRel(i)[2]), Num(d.t))

FacePrediction(d) == [keypoints |-> [gen |-> "face", d |-> d]]

FaceDescs == [t : Offsets, len : FaceLengths]

\* landmarks.length
LmLength(landmarks) == landmarks.d.len

\* the indices at which a landmark list has no entry although it is long enough
LmHoles(landmarks) ==
    IF "holes" \in DOMAIN landmarks.d THEN landmarks.d.holes ELSE {}

\* landmarks[i] of a JavaScript array (indexed from 0): undefined past its end
\* and where it has no entry
Lm(landmarks, i) ==
    IF i < 0 \/ i >= LmLength(landmarks) \/ i \in LmHoles(landmarks) THEN Undefined
    ELSE IF landmarks.gen = "hand" THEN HandPoint(landmarks.d, i)
    ELSE FacePoint(landmarks.d, i)

(***************************************************************************)
(* HandPoseDetector                                                        *)
(***************************************************************************)
handLandmarkNames ==
    <<"wrist",
      "thumb_cmc", "thumb_mcp", "thumb_ip", "thumb_tip",
      "index_finger_mcp", "index_finger_pip", "index_finger_dip", "index_finger_tip",
      "middle_finger_mcp", "middle_finger_pip", "middle_finger_dip", "middle_finger_tip",
      "ring_finger_mcp", "ring_finger_pip", "ring_finger_dip", "ring_finger_tip",
      "pinky_mcp", "pinky_pip", "pinky_dip", "pinky_tip">>

\* keypoints[name] of a JavaScript object: undefined when the key is absent
Kp(keypoints, name) == IF name \in DOMAIN keypoints THEN keypoints[name] ELSE Undefined

Blend(a, wa, b, wb) ==
    Pt(RAdd(RMul(a.x, wa), RMul(b.x, wb)),
       RAdd(RMul(a.y, wa), RMul(b.y, wb)),
       RAdd(RMul(a.z, wa), RMul(b.z, wb)))

Midpoint(a, b) ==
    Pt(RDiv(RAdd(a.x, b.x), Num(2)),
       RDiv(RAdd(a.y, b.y), Num(2)),
       RDiv(RAdd(a.z, b.z), Num(2)))

HandNamedKeypoints(landmarks) ==
    LET idx == {i \in 0 .. (LmLength(landmarks) - 1) :
                    i + 1 \in DOMAIN handLandmarkNames /\ Truthy(Lm(landmarks, i))}
        names == {handLandmarkNames[i + 1] : i \in idx}
    IN  [n \in names |->
            Lm(landmarks, CHOOSE i \in idx : handLandmarkNames[i + 1] = n)]

HandRingPosition(k) ==
    IF Truthy(Kp(k, "ring_finger_mcp")) /\ Truthy(Kp(k, "ring_finger_pip"))
    THEN "ring_position" :> Midpoint(k["ring_finger_mcp"], k["ring_finger_pip"])
    ELSE <<>>

HandBraceletPosition(k) ==
    IF Truthy(Kp(k, "wrist")) THEN "bracelet_position" :> k["wrist"] ELSE <<>>

HandWatchPosition(k) ==
    IF Truthy(Kp(k, "wrist")) /\ Truthy(Kp(k, "pinky_mcp"))
    THEN "watch_position" :> Blend(k["wrist"], Rat(8, 10), k["pinky_mcp"], Rat(2, 10))
    ELSE <<>>

HandExtractKeypoints(prediction) ==
    LET k == HandNamedKeypoints(prediction.keypoints)
    IN  HandWatchPosition(k) @@ HandBraceletPosition(k) @@ HandRingPosition(k) @@ k

Cross(a, b) ==
    Pt(RSub(RMul(a.y, b.z), RMul(a.z, b.y)),
       RSub(RMul(a.z, b.x), RMul(a.x, b.z)),
       RSub(RMul(a.x, b.y), RMul(a.y, b.x)))

Diff(a, b) == Pt(RSub(a.x, b.x), RSub(a.y, b.y), RSub(a.z, b.z))

\* The roll angle only: roll = atan2 of the normalised palm normal's x and z, and
\* normalising (or leaving the zero vector as it is) does not change that angle.
calculateHandOrientation(prediction) ==
    LET lm == prediction.keypoints
        wrist == Lm(lm, 0)
        middleMcp == Lm(lm, 9)
        middleTip == Lm(lm, 12)
        indexMcp == Lm(lm, 5)
        pinkyMcp == Lm(lm, 17)
    IN  IF \E p \in {wrist, middleMcp, middleTip, indexMcp, pinkyMcp} : ~Truthy(p)
        THEN [angles |-> [roll |-> Num(0)]]
        ELSE LET palmNormal == Cross(Diff(middleMcp, wrist), Diff(pinkyMcp, indexMcp))
             IN  [angles |-> [roll |-> Atan2Deg(palmNormal.x, palmNormal.z)]]

\* One element of processPredictions' result.  Its keypoints and orientation are
\* functions of the prediction alone and are computed where they are read.
HandProcessPrediction(prediction) ==
    [landmarks |-> prediction.keypoints,
     handedness |-> IF prediction.handedness = "Left" THEN "Left" ELSE "Right",
     prediction |-> prediction]

HandKeypoints(hand) == HandExtractKeypoints(hand.prediction)

HandOrientation(hand) == calculateHandOrientation(hand.prediction)

(***************************************************************************)
(* FaceLandmarkDetector                                                    *)
(***************************************************************************)
\* a || b on landmark entries
OrElse(a, b) == IF Truthy(a) THEN a ELSE b

FaceExtractKeypoints(prediction) ==
    LET lm == prediction.keypoints
        leftEar == OrElse(Lm(lm, 234), Lm(lm, 93))
        rightEar == OrElse(Lm(lm, 454), Lm(lm, 323))
        named == [leftEar |-> leftEar,
                  rightEar |-> rightEar,
                  leftEye |-> OrElse(Lm(lm, 33), Lm(lm, 159)),
                  rightEye |-> OrElse(Lm(lm, 263), Lm(lm, 386)),
                  noseTip |-> OrElse(Lm(lm, 1), Lm(lm, 19)),
                  upperLip |-> OrElse(Lm(lm, 13), Lm(lm, 0)),
                  lowerLip |-> OrElse(Lm(lm, 14), Lm(lm, 17))]
    IN  IF LmLength(lm) = 0
        THEN <<>>
        ELSE IF Truthy(leftEar) /\ Truthy(rightEar)
             THEN ("neckBase" :> Pt(RDiv(RAdd(leftEar.x, rightEar.x), Num(2)),
                                    RAdd(RMax(leftEar.y, rightEar.y), Num(50)),
                                    RDiv(RAdd(leftEar.z, rightEar.z), Num(2))))
                  @@ named
             ELSE named

calculateFaceRotation(prediction) ==
    LET lm == prediction.keypoints
        leftEye == OrElse(Lm(lm, 33), Lm(lm, 159))
        rightEye == OrElse(Lm(lm, 263), Lm(lm, 386))
        noseTip == OrElse(Lm(lm, 1), Lm(lm, 19))
        zero == [pitch |-> Num(0), yaw |-> Num(0), roll |-> Num(0)]
    IN  IF LmLength(lm) < 468 \/ ~Truthy(leftEye) \/ ~Truthy(rightEye) \/ ~Truthy(noseTip)
        THEN zero
        ELSE [pitch |-> RMul(RSub(noseTip.y, RDiv(RAdd(leftEye.y, rightEye.y), Num(2))),
                             Num(100)),
              yaw |-> RMul(RSub(noseTip.x, RDiv(RAdd(leftEye.x, rightEye.x), Num(2))),
                           Num(100)),
              roll |-> Atan2Deg(RSub(rightEye.y, leftEye.y), RSub(rightEye.x, leftEye.x))]

FaceProcessPrediction(prediction) ==
    [landmarks |-> prediction.keypoints,
     rotation |-> calculateFaceRotation(prediction),
     prediction |-> prediction]

FaceKeypoints(face) == FaceExtractKeypoints(face.prediction)

(***************************************************************************)
(* Inputs: jewelry items and tracking points.                              *)
(* An item is a catalog entry; "" is an absent string property and None an *)
(* absent numeric one.  Tracking points hand the renderer the detectors'   *)
(* processed results (objects with .landmarks): face, leftHand, rightHand. *)
(***************************************************************************)
Item(id, type, preferredHand, fingerIndex, sizeAdjustment, imageUrl, leftImageUrl, rightImageUrl, textureUrl) ==
    [id |-> id, type |-> type, preferredHand |-> preferredHand,
     fingerIndex |-> fingerIndex, sizeAdjustment |-> sizeAdjustment,
     imageUrl |-> imageUrl, leftImageUrl |-> leftImageUrl,
     rightImageUrl |-> rightImageUrl, textureUrl |-> textureUrl]

Catalog ==
    { Item("earA", "earrings", "", None, Some(Num(1)), "", "item.png", "item.png", "item.png"),
      Item("earB", "earrings", "", None, None, "", "missing.png", "item.png", ""),
      Item("earC", "earrings", "", None, Some(Num(1)), "", "item.png", "", ""),
      Item("neckA", "necklace", "", None, Some(Num(1)), "item.png", "", "", ""),
      Item("ringA", "ring", "left", None, Some(Num(1)), "item.png", "", "", "item.png"),
      Item("ringB", "ring", "", Some(1), None, "item.png", "", "", ""),
      Item("braceletA", "bracelet", "left", None, Some(Num(1)), "item.png", "", "", ""),
      Item("braceletB", "bracelet", "", None, None, "item.png", "", "", ""),
      Item("watchA", "watch", "left", None, Some(Num(1)), "item.png", "", "", ""),
      Item("watchB", "watch", "right", None, None, "item.png", "", "", ""),
      Item("earringAR", "earring", "", None, Some(Num(1)), "", "item.png", "item.png", "") }

\* the items whose assets a caller preloads
Preloadable == {item \in Catalog : item.textureUrl # ""}

NoDesc == [absent |-> TRUE]

FaceTps ==
    {[face |-> f, leftHand |-> NoDesc, rightHand |-> NoDesc] :
        f \in {NoDesc} \cup FaceDescs}

HandDesc(side, t, shape) == [side |-> side, t |-> t, shape |-> shape, len |-> 21]

HandTp(l, r) == [face |-> NoDesc, leftHand |-> l, rightHand |-> r]

HandTps ==
    { HandTp(NoDesc, NoDesc),
      HandTp(NoDesc, HandDesc("Right", 100, "straight")),
      HandTp(NoDesc, HandDesc("Right", 0, "bent")),
      HandTp(HandDesc("Left", 0, "straight"), NoDesc),
      HandTp(HandDesc("Left", 100, "bent"), HandDesc("Right", 100, "bent")) }

HandTypes == {"ring", "bracelet", "watch"}

TpFor(item) == IF item.type \in HandTypes THEN HandTps ELSE FaceTps

TrackingPoints(tpd) ==
    [face |-> IF tpd.face = NoDesc THEN Undefined
              ELSE FaceProcessPrediction(FacePrediction(tpd.face)),
     leftHand |-> IF tpd.leftHand = NoDesc THEN Undefined
                  ELSE HandProcessPrediction(HandPrediction(tpd.leftHand)),
     rightHand |-> IF tpd.rightHand = NoDesc THEN Undefined
                   ELSE HandProcessPrediction(HandPrediction(tpd.rightHand))]

VideoSizes == {[width |-> 4, height |-> 3]}

(***************************************************************************)
(* JewelryRenderer: positioning helpers.  A helper whose body is wrapped   *)
(* in try/catch returns its fallback when a landmark it reads is           *)
(* undefined (the TypeError of reading a property of undefined).           *)
(***************************************************************************)
smoothingFactor == Rat(7, 10)

EmptyPositions ==
    [earrings |-> [left |-> Undefined, right |-> Undefined],
     necklace |-> Undefined,
     ring |-> Undefined,
     bracelet |-> Undefined,
     watch |-> Undefined]

getLeftEarringPosition(face) == Lm(face.landmarks, 234)

getRightEarringPosition(face) == Lm(face.landmarks, 454)

getNeckPosition(face) ==
    LET chin == Lm(face.landmarks, 152)
    IN  IF ~Truthy(chin) THEN Undefined
        ELSE Pt(chin.x, RAdd(chin.y, Rat(1, 10)), chin.z)

\* mutant of getFingerRingPosition: the weights exchanged
getFingerRingPosition_swapped(hand, fingerIndex) ==
    LET baseJoint == Lm(hand.landmarks, fingerIndex * 4 + 1)
        middleJoint == Lm(hand.landmarks, fingerIndex * 4 + 2)
    IN  IF ~Truthy(baseJoint) \/ ~Truthy(middleJoint) THEN Undefined
        ELSE Blend(baseJoint, Rat(7, 10), middleJoint, Rat(3, 10))

getFingerRingPosition(hand, fingerIndex) ==
    LET baseJoint == Lm(hand.landmarks, fingerIndex * 4 + 1)
        middleJoint == Lm(hand.landmarks, fingerIndex * 4 + 2)
    IN  IF ~Truthy(baseJoint) \/ ~Truthy(middleJoint) THEN Undefined
        ELSE Blend(baseJoint, Rat(3, 10), middleJoint, Rat(7, 10))

getWristPosition(hand) == Lm(hand.landmarks, 0)

getWatchPosition(hand) ==
    LET wrist == Lm(hand.landmarks, 0)
        palm == Lm(hand.landmarks, 9)
    IN  IF ~Truthy(wrist) \/ ~Truthy(palm) THEN Undefined
        ELSE Blend(wrist, Rat(8, 10), palm, Rat(2, 10))

\* defined when both points are; the callers decide what an undefined point does
calculateDistance(point1, point2) ==
    RSqrt(RAdd(RAdd(RSquare(RSub(point2.x, point1.x)),
                    RSquare(RSub(point2.y, point1.y))),
               RSquare(RSub(point2.z, point1.z))))

estimateShoulderWidth(face) ==
    LET a == Lm(face.landmarks, 234)
        b == Lm(face.landmarks, 454)
    IN  IF ~Truthy(a) \/ ~Truthy(b) THEN Rat(3, 10)
        ELSE RMul(calculateDistance(a, b), Num(3))

Min2(a, b) == IF a < b THEN a ELSE b
Max2(a, b) == IF a > b THEN a ELSE b

estimateFingerWidth(hand, fingerIndex) ==
    LET baseJoint1 == Lm(hand.landmarks, Max2(0, fingerIndex - 1) * 4 + 1)
        baseJoint2 == Lm(hand.landmarks, Min2(4, fingerIndex + 1) * 4 + 1)
    IN  IF ~Truthy(baseJoint1) \/ ~Truthy(baseJoint2) THEN Rat(2, 100)
        ELSE RMul(calculateDistance(baseJoint1, baseJoint2), Rat(4, 10))

estimateWristWidth(hand) ==
    LET thumbBase == Lm(hand.landmarks, 1)
        pinkyBase == Lm(hand.landmarks, 17)
    IN  IF ~Truthy(thumbBase) \/ ~Truthy(pinkyBase) THEN Rat(1, 10)
        ELSE RMul(calculateDistance(thumbBase, pinkyBase), Rat(12, 10))

calculateFingerRotation(hand, fingerIndex) ==
    LET baseJoint == Lm(hand.landmarks, fingerIndex * 4 + 1)
        tipJoint == Lm(hand.landmarks, fingerIndex * 4 + 4)
    IN  IF ~Truthy(baseJoint) \/ ~Truthy(tipJoint) THEN Num(0)
        ELSE Atan2Deg(RSub(tipJoint.y, baseJoint.y), RSub(tipJoint.x, baseJoint.x))

calculateArmRotation(hand) ==
    LET wrist == Lm(hand.landmarks, 0)
        middleBase == Lm(hand.landmarks, 9)
    IN  IF ~Truthy(wrist) \/ ~Truthy(middleBase) THEN Num(0)
        ELSE Atan2Deg(RSub(middleBase.y, wrist.y), RSub(middleBase.x, wrist.x))

\* mutants of smoothPosition: the weights exchanged; the first observation damped
smoothPosition_swapped(previousPosition, newPosition, smoothFactor) ==
    IF ~Truthy(previousPosition) THEN newPosition
    ELSE Blend(previousPosition, RSub(Num(1), smoothFactor), newPosition, smoothFactor)

smoothPosition_dampsFirst(previousPosition, newPosition, smoothFactor) ==
    Blend(IF Truthy(previousPosition) THEN previousPosition
          ELSE Pt(Num(0), Num(0), Num(0)),
          smoothFactor, newPosition, RSub(Num(1), smoothFactor))

smoothPosition(previousPosition, newPosition, smoothFactor) ==
    IF ~Truthy(previousPosition) THEN newPosition
    ELSE Blend(previousPosition, smoothFactor, newPosition, RSub(Num(1), smoothFactor))

(***************************************************************************)
(* JewelryRenderer: drawing and the render methods.  A render method       *)
(* yields the new smoothing cache, the draws it completed and whether it   *)
(* threw to its caller.                                                    *)
(***************************************************************************)
NullType == "null"

Draw(slot, url, pos, size, scale, rotation) ==
    [slot |-> slot, url |-> url,
     x |-> RMul(pos.x, Num(size.width)),
     y |-> RMul(pos.y, Num(size.height)),
     size |-> RMul(scale, Num(size.width)),
     rotation |-> rotation]

\* drawImageAtPoint completes iff the image is already in the texture cache:
\* otherwise it awaits loadTexture, keeps nothing of what was loaded, and throws.
drawImageAtPoint(tex, url) == url \in tex

\* The body of a try block that draws the candidates in order, each only if its
\* URL is set; the first draw that throws ends the block.
RECURSIVE TryDraws(_, _)
TryDraws(tex, cands) ==
    IF cands = <<>> THEN <<>>
    ELSE IF Head(cands).url = "" THEN TryDraws(tex, Tail(cands))
    ELSE IF ~drawImageAtPoint(tex, Head(cands).url) THEN <<>>
    ELSE <<Head(cands)>> \o TryDraws(tex, Tail(cands))

Result(sp, d, t) == [sp |-> sp, drawn |-> d, threw |-> t]

\* x || fallback on an optional number: 0 and undefined are falsy
OrNum(opt, fallback) == IF opt.some /\ opt.v.n # 0 THEN opt.v ELSE fallback

\* x || fallback on an optional integer
OrInt(opt, fallback) == IF opt.some /\ opt.v # 0 THEN opt.v ELSE fallback

\* eyeDistance * sizeAdjustment || 0.15
EarringScale(eyeDistance, sizeAdjustment) ==
    IF sizeAdjustment.some /\ RMul(eyeDistance, sizeAdjustment.v).n # 0
    THEN RMul(eyeDistance, sizeAdjustment.v)
    ELSE Rat(15, 100)

FaceRotationOr0(face) == IF Truthy(face.rotation) THEN face.rotation ELSE Num(0)

\* mutant of renderEarrings: each ear is smoothed as soon as it is found, the
\* left one before the right one is looked at
renderEarrings_leftFirst(sp, tex, earrings, trackingPoints, size) ==
    LET face == trackingPoints.face
    IN  IF ~Truthy(face) THEN Result(sp, <<>>, FALSE)
        ELSE
        LET leftEarPoint == getLeftEarringPosition(face)
            rightEarPoint == getRightEarringPosition(face)
        IN  IF ~Truthy(leftEarPoint) THEN Result(sp, <<>>, FALSE)
            ELSE
            LET leftEar == smoothPosition(sp.earrings.left, leftEarPoint, smoothingFactor)
                sp1 == [sp EXCEPT !.earrings.left = leftEar]
            IN  IF ~Truthy(rightEarPoint) THEN Result(sp1, <<>>, FALSE)
                ELSE
                LET rightEar == smoothPosition(sp.earrings.right, rightEarPoint,
                                               smoothingFactor)
                    sp2 == [sp1 EXCEPT !.earrings.right = rightEar]
                    eyeA == Lm(face.landmarks, 27)
                    eyeB == Lm(face.landmarks, 33)
                IN  IF ~Truthy(eyeA) \/ ~Truthy(eyeB)
                    THEN Result(sp2, <<>>, TRUE)
                    ELSE
                    LET scale == EarringScale(calculateDistance(eyeA, eyeB),
                                              earrings.sizeAdjustment)
                        rotation == FaceRotationOr0(face)
                    IN  Result(sp2,
                               TryDraws(tex,
                                   <<Draw("earrings.left", earrings.leftImageUrl,
                                          leftEar, size, scale, rotation),
                                     Draw("earrings.right", earrings.rightImageUrl,
                                          rightEar, size, scale, rotation)>>),
                               FALSE)

renderEarrings(sp, tex, earrings, trackingPoints, size) ==
    LET face == trackingPoints.face
    IN  IF ~Truthy(face) THEN Result(sp, <<>>, FALSE)
        ELSE
        LET leftEarPoint == getLeftEarringPosition(face)
            rightEarPoint == getRightEarringPosition(face)
        IN  IF ~Truthy(leftEarPoint) \/ ~Truthy(rightEarPoint)
            THEN Result(sp, <<>>, FALSE)
            ELSE
            LET leftEar == smoothPosition(sp.earrings.left, leftEarPoint, smoothingFactor)
                rightEar == smoothPosition(sp.earrings.right, rightEarPoint, smoothingFactor)
                sp2 == [sp EXCEPT !.earrings = [left |-> leftEar, right |-> rightEar]]
                eyeA == Lm(face.landmarks, 27)
                eyeB == Lm(face.landmarks, 33)
            IN  IF ~Truthy(eyeA) \/ ~Truthy(eyeB)
                THEN Result(sp2, <<>>, TRUE)
                ELSE
                LET scale == EarringScale(calculateDistance(eyeA, eyeB),
                                          earrings.sizeAdjustment)
                    rotation == FaceRotationOr0(face)
                IN  Result(sp2,
                           TryDraws(tex,
                               <<Draw("earrings.left", earrings.leftImageUrl,
                                      leftEar, size, scale, rotation),
                                 Draw("earrings.right", earrings.rightImageUrl,
                                      rightEar, size, scale, rotation)>>),
                           FALSE)

renderNecklace(sp, tex, necklace, trackingPoints, size) ==
    LET face == trackingPoints.face
    IN  IF ~Truthy(face) THEN Result(sp, <<>>, FALSE)
        ELSE
        LET neckPoint == getNeckPosition(face)
        IN  IF ~Truthy(neckPoint) THEN Result(sp, <<>>, FALSE)
            ELSE
            LET neck == smoothPosition(sp.necklace, neckPoint, smoothingFactor)
                scale == RMul(estimateShoulderWidth(face),
                              OrNum(necklace.sizeAdjustment, Num(1)))
            IN  Result([sp EXCEPT !.necklace = neck],
                       TryDraws(tex, <<Draw("necklace", necklace.imageUrl, neck, size,
                                            scale, FaceRotationOr0(face))>>),
                       FALSE)

\* preferredHand === 'left' ? leftHand : (rightHand || leftHand)
rendererChooseHand(item, trackingPoints) ==
    IF item.preferredHand = "left"
    THEN trackingPoints.leftHand
    ELSE OrElse(trackingPoints.rightHand, trackingPoints.leftHand)

renderRing(sp, tex, ring, trackingPoints, size) ==
    LET hand == rendererChooseHand(ring, trackingPoints)
    IN  IF ~Truthy(hand) THEN Result(sp, <<>>, FALSE)
        ELSE
        LET fingerIndex == OrInt(ring.fingerIndex, 3)
            fingerPoint == getFingerRingPosition(hand, fingerIndex)
        IN  IF ~Truthy(fingerPoint) THEN Result(sp, <<>>, FALSE)
            ELSE
            LET fingerPos == smoothPosition(sp.ring, fingerPoint, smoothingFactor)
                scale == RMul(estimateFingerWidth(hand, fingerIndex),
                              OrNum(ring.sizeAdjustment, Rat(15, 10)))
                rotation == calculateFingerRotation(hand, fingerIndex)
            IN  Result([sp EXCEPT !.ring = fingerPos],
                       TryDraws(tex, <<Draw("ring", ring.imageUrl, fingerPos, size,
                                            scale, rotation)>>),
                       FALSE)

renderBracelet(sp, tex, bracelet, trackingPoints, size) ==
    LET hand == rendererChooseHand(bracelet, trackingPoints)
    IN  IF ~Truthy(hand) THEN Result(sp, <<>>, FALSE)
        ELSE
        LET wristPoint == getWristPosition(hand)
        IN  IF ~Truthy(wristPoint) THEN Result(sp, <<>>, FALSE)
            ELSE
            LET wrist == smoothPosition(sp.bracelet, wristPoint, smoothingFactor)
                scale == RMul(estimateWristWidth(hand),
                              OrNum(bracelet.sizeAdjustment, Rat(12, 10)))
            IN  Result([sp EXCEPT !.bracelet = wrist],
                       TryDraws(tex, <<Draw("bracelet", bracelet.imageUrl, wrist, size,
                                            scale, calculateArmRotation(hand))>>),
                       FALSE)

renderWatch(sp, tex, watch, trackingPoints, size) ==
    LET hand == rendererChooseHand(watch, trackingPoints)
    IN  IF ~Truthy(hand) THEN Result(sp, <<>>, FALSE)
        ELSE
        LET watchPoint == getWatchPosition(hand)
        IN  IF ~Truthy(watchPoint) THEN Result(sp, <<>>, FALSE)
            ELSE
            LET wristPos == smoothPosition(sp.watch, watchPoint, smoothingFactor)
                scale == RMul(estimateWristWidth(hand),
                              OrNum(watch.sizeAdjustment, Rat(15, 10)))
            IN  Result([sp EXCEPT !.watch = wristPos],
                       TryDraws(tex, <<Draw("watch", watch.imageUrl, wristPos, size,
                                            scale, calculateArmRotation(hand))>>),
                       FALSE)

render(sp, tex, jewelryItem, trackingPoints, size) ==
    CASE jewelryItem.type = "earrings" ->
            renderEarrings(sp, tex, jewelryItem, trackingPoints, size)
      [] jewelryItem.type = "necklace" ->
            renderNecklace(sp, tex, jewelryItem, trackingPoints, size)
      [] jewelryItem.type = "ring" ->
            renderRing(sp, tex, jewelryItem, trackingPoints, size)
      [] jewelryItem.type = "bracelet" ->
            renderBracelet(sp, tex, jewelryItem, trackingPoints, size)
      [] jewelryItem.type = "watch" ->
            renderWatch(sp, tex, jewelryItem, trackingPoints, size)
      [] OTHER -> Result(sp, <<>>, FALSE)

\* mutant of clearedPositions: the watch slot survives
clearedPositions_keepsWatch == [EmptyPositions EXCEPT !.watch = smoothedPositions.watch]

\* clearCache(): the cache it installs
clearedPositions == EmptyPositions

(***************************************************************************)
(* ARVirtualTryOn: drawing.  A detection result is kept as its description *)
(* and expanded to the detector's array where it is read.                  *)
(***************************************************************************)
NoItem == [absent |-> TRUE]

NoClosure == [absent |-> TRUE]

NullDetection == [kind |-> "null"]

NaN == [nan |-> TRUE]

defaultAdjustments ==
    [scale |-> Num(1), xOffset |-> Num(0), yOffset |-> Num(0), rotation |-> Num(0)]

\* canvas.width, canvas.height
canvas == [width |-> 4, height |-> 3]

\* FaceLandmarkDetector.mockDetect()[0].keypoints
mockKeypoints ==
    [leftEar |-> Pt(Num(100), Num(150), Num(0)),
     rightEar |-> Pt(Num(300), Num(150), Num(0)),
     neckBase |-> Pt(Num(200), Num(250), Num(0)),
     leftEye |-> Pt(Num(150), Num(100), Num(0)),
     rightEye |-> Pt(Num(250), Num(100), Num(0)),
     noseTip |-> Pt(Num(200), Num(150), Num(0)),
     upperLip |-> Pt(Num(200), Num(180), Num(0)),
     lowerLip |-> Pt(Num(200), Num(200), Num(0))]

mockDetect == [kind |-> "mock"]

\* faceLandmarkDetector.detect(video): null when it finds no face
FaceDetect(seen) ==
    IF seen.face = NoDesc THEN NullDetection ELSE [kind |-> "face", d |-> seen.face]

\* handPoseDetector.detect(video): null when it finds no hand
HandDetect(seen) ==
    IF seen.hands = <<>> THEN NullDetection ELSE [kind |-> "hand", hands |-> seen.hands]

\* the array a detection result stands for
Detections(result) ==
    CASE result.kind = "null" -> <<>>
      [] result.kind = "mock" -> <<[mock |-> TRUE]>>
      [] result.kind = "face" -> <<FaceProcessPrediction(FacePrediction(result.d))>>
      [] result.kind = "hand" ->
            [i \in DOMAIN result.hands |->
                HandProcessPrediction(HandPrediction(result.hands[i]))]

\* detection.keypoints || {}
DetectionKeypoints(detection) ==
    IF "mock" \in DOMAIN detection THEN mockKeypoints
    ELSE IF "handedness" \in DOMAIN detection THEN HandKeypoints(detection)
    ELSE FaceKeypoints(detection)

\* item.sizeAdjustment * itemAdjustments.scale
AdjustedScale(item, adj) ==
    IF item.sizeAdjustment.some THEN RMul(item.sizeAdjustment.v, adj.scale) ELSE NaN

drawImage(item, imageUrl, x, y, scale, rotation, xOffset, yOffset) ==
    [type |-> item.type, url |-> imageUrl,
     x |-> RAdd(x, xOffset), y |-> RAdd(y, yOffset),
     size |-> IF scale = NaN THEN NaN
              ELSE RMul(RMul(Num(Min2(canvas.width, canvas.height)), Rat(1, 10)), scale),
     rotation |-> rotation]

drawFaceItem(faceDetections, item, adj) ==
    IF faceDetections = <<>> THEN <<>>
    ELSE
    LET keypoints == DetectionKeypoints(faceDetections[1])
        at(url, p) == drawImage(item, url, p.x, p.y, AdjustedScale(item, adj),
                                adj.rotation, adj.xOffset, adj.yOffset)
    IN  CASE item.type = "earring" ->
                IF Truthy(Kp(keypoints, "leftEar")) /\ Truthy(Kp(keypoints, "rightEar"))
                THEN (IF item.leftImageUrl # ""
                      THEN <<at(item.leftImageUrl, keypoints.leftEar)>> ELSE <<>>)
                     \o (IF item.rightImageUrl # ""
                         THEN <<at(item.rightImageUrl, keypoints.rightEar)>> ELSE <<>>)
                ELSE <<>>
          [] item.type = "necklace" ->
                IF Truthy(Kp(keypoints, "neckBase")) /\ item.imageUrl # ""
                THEN <<at(item.imageUrl, keypoints.neckBase)>>
                ELSE <<>>
          [] OTHER -> <<>>

\* handDetections.find(hand => hand.handedness === handedness)
FindHand(handDetections, handedness) ==
    LET idx == {i \in DOMAIN handDetections : handDetections[i].handedness = handedness}
    IN  IF idx = {} THEN Undefined
        ELSE handDetections[CHOOSE i \in idx : \A k \in idx : i <= k]

targetHandOf(handDetections, item) ==
    IF item.preferredHand = "left"
    THEN OrElse(FindHand(handDetections, "Left"), handDetections[1])
    ELSE OrElse(FindHand(handDetections, "Right"), handDetections[1])

\* targetHand.orientation?.angles.roll + rotation || rotation
RollOrRotation(targetHand, rotation) ==
    LET sum == RAdd(HandOrientation(targetHand).angles.roll, rotation)
    IN  IF sum.n # 0 THEN sum ELSE rotation

drawHandItem(handDetections, item, adj) ==
    IF handDetections = <<>> THEN <<>>
    ELSE
    LET targetHand == targetHandOf(handDetections, item)
        keypoints == DetectionKeypoints(targetHand)
        at(p, rotation) == drawImage(item, item.imageUrl, p.x, p.y,
                                     AdjustedScale(item, adj), rotation,
                                     adj.xOffset, adj.yOffset)
    IN  CASE item.type = "ring" ->
                LET fingerIndex == OrInt(item.fingerIndex, 3)
                    fingerBase == Kp(keypoints, ToString(fingerIndex) \o "_mcp")
                    fingerMiddle == Kp(keypoints, ToString(fingerIndex) \o "_pip")
                IN  IF Truthy(fingerBase) /\ Truthy(fingerMiddle) /\ item.imageUrl # ""
                    THEN <<at(Blend(fingerBase, Rat(3, 10), fingerMiddle, Rat(7, 10)),
                              RAdd(Atan2Deg(RSub(fingerMiddle.y, fingerBase.y),
                                            RSub(fingerMiddle.x, fingerBase.x)),
                                   adj.rotation))>>
                    ELSE <<>>
          [] item.type \in {"bracelet", "watch"} ->
                IF Truthy(Kp(keypoints, "wrist")) /\ item.imageUrl # ""
                THEN <<at(keypoints.wrist, RollOrRotation(targetHand, adj.rotation))>>
                ELSE <<>>
          [] OTHER -> <<>>

drawARContent(detectionResult_, trackingType_, item, adj) ==
    IF detectionResult_ = NullDetection THEN <<>>
    ELSE IF trackingType_ = "face" THEN drawFaceItem(Detections(detectionResult_), item, adj)
    ELSE IF trackingType_ = "hand" THEN drawHandItem(Detections(detectionResult_), item, adj)
    ELSE <<>>

(***************************************************************************)
(* The renderer as a state machine.  Besides the operation and its         *)
(* arguments, call records what the claims need of the history: whether a  *)
(* clearCache was the last thing to touch the cache (sinceClear, and       *)
(* afterClear for the render that follows it) and the item of the render   *)
(* call right before this one (prevItem).                                  *)
(***************************************************************************)
\* new JewelryRenderer(): constructor
FreshRenderer ==
    [smoothedPositions |-> EmptyPositions, lastRenderedType |-> NullType,
     textures |-> {}, drawn |-> <<>>, threw |-> FALSE]

NoOverlay == [none |-> TRUE]

\* App's useState initial values; nothing is being processed.  sinceReset
\* tells that resetFlow ran and no item was selected since.
InitialApp ==
    [selectedJewelry |-> NoItem, mediaSource |-> NoItem, processedMedia |-> NoItem,
     currentView |-> "select", isProcessing |-> FALSE, inFlight |-> <<>>,
     sinceReset |-> FALSE, op |-> "mount"]

\* no detector instance constructed yet; the clock (performance.now()) at 0
NoDetector == [kind |-> "none", now |-> 0]

\* The component once the camera streams and before any frame loop runs: the
\* video shows its first frame, the canvas is blank (frame 0), no loop exists,
\* processingRef.current is false and animationRef.current is null (0).
\* stopped tells that stopTracking ran (the detector refs are null), and
\* requestedAfterStop that requestAnimationFrame was called after it.
InitialLoop ==
    [video |-> 1, canvas |-> 0, overlay |-> NoOverlay, processing |-> FALSE,
     animationRef |-> 0, procs |-> <<>>, op |-> "mount",
     stopped |-> FALSE, requestedAfterStop |-> FALSE]

Init ==
    /\ smoothedPositions = EmptyPositions
    /\ lastRenderedType = NullType
    /\ textures = {}
    /\ frame = 0
    /\ call = [op |-> "constructor", sinceClear |-> FALSE]
    /\ pre = EmptyPositions
    /\ drawn = <<>>
    /\ threw = FALSE
    /\ selectedItem = NoItem
    /\ trackingType = ""
    /\ itemAdjustments = defaultAdjustments
    /\ framesProcessed = 0
    /\ frameSkip = 1
    /\ closure = NoClosure
    /\ detectionResult = NullDetection
    /\ arDrawn = <<>>
    /\ mapping = [op |-> "none"]
    /\ twin = [a |-> FreshRenderer, b |-> FreshRenderer, frame |-> 0, op |-> "constructor"]
    /\ loop = InitialLoop
    /\ detector = NoDetector
    /\ app = InitialApp

\* await renderer.render(ctx, item, trackingPoints, videoWidth, videoHeight)
Render(item, tpd, size) ==
    /\ frame < MaxFrames
    /\ LET r == render(smoothedPositions, textures, item, TrackingPoints(tpd), size)
       IN  /\ smoothedPositions' = r.sp
           /\ drawn' = r.drawn
           /\ threw' = r.threw
           /\ lastRenderedType' = IF r.threw THEN lastRenderedType ELSE item.type
    /\ pre' = smoothedPositions
    /\ call' = [op |-> "render", item |-> item, tp |-> tpd, size |-> size,
                sinceClear |-> FALSE,
                afterClear |-> call.sinceClear,
                prevItem |-> IF call.op = "render" THEN call.item ELSE NoItem]
    /\ frame' = frame + 1
    /\ UNCHANGED <<textures, arVars, extVars>>

\* renderer.clearCache()
ClearCache ==
    /\ smoothedPositions' = clearedPositions
    /\ lastRenderedType' = NullType
    /\ pre' = smoothedPositions
    /\ call' = [op |-> "clearCache", sinceClear |-> TRUE]
    /\ drawn' = <<>>
    /\ threw' = FALSE
    /\ UNCHANGED <<textures, frame, arVars, extVars>>

\* await renderer.preload(item); loaded tells whether the texture load resolved
Preload(item, loaded) ==
    /\ textures' = IF item.textureUrl # "" /\ loaded
                   THEN textures \cup {item.textureUrl}
                   ELSE textures
    /\ pre' = smoothedPositions
    /\ call' = [op |-> "preload", item |-> item, sinceClear |-> call.sinceClear]
    /\ drawn' = <<>>
    /\ threw' = FALSE
    /\ UNCHANGED <<smoothedPositions, lastRenderedType, frame, arVars, extVars>>

Next ==
    \/ \E item \in Catalog : \E tpd \in TpFor(item) : \E size \in VideoSizes :
          Render(item, tpd, size)
    \/ ClearCache
    \/ \E item \in Preloadable : \E loaded \in BOOLEAN : Preload(item, loaded)

Spec == Init /\ [][Next]_vars

(***************************************************************************)
(* The renderer on edge inputs: items with a zero finger index or a        *)
(* negative size adjustment, a hand whose landmark list stops short, a     *)
(* face whose list lacks the eye corners.                                  *)
(***************************************************************************)
EdgeCatalog ==
    { Item("ringThumb", "ring", "", Some(0), Some(Num(1)), "item.png", "", "", "item.png"),
      Item("ringIndex", "ring", "", Some(1), Some(Num(1)), "item.png", "", "", ""),
      Item("ringNeg", "ring", "", None, Some(Num(-1)), "item.png", "", "", ""),
      Item("braceletZero", "bracelet", "", None, Some(Num(0)), "item.png", "", "", ""),
      Item("earA", "earrings", "", None, Some(Num(1)), "", "item.png", "item.png", "item.png") }

EdgeHandTps ==
    { HandTp(NoDesc, NoDesc),
      HandTp(NoDesc, HandDesc("Right", 0, "bent")),
      HandTp(NoDesc, [HandDesc("Right", 100, "straight") EXCEPT !.len = 15]),
      HandTp(NoDesc, [HandDesc("Right", 0, "straight") EXCEPT !.len = 1]) }

EdgeFaceTps ==
    { [face |-> [t |-> 0, len |-> 478], leftHand |-> NoDesc, rightHand |-> NoDesc],
      [face |-> [t |-> 100, len |-> 478, holes |-> {27}],
       leftHand |-> NoDesc, rightHand |-> NoDesc],
      [face |-> [t |-> 0, len |-> 300], leftHand |-> NoDesc, rightHand |-> NoDesc] }

EdgeTpFor(item) == IF item.type \in HandTypes THEN EdgeHandTps ELSE EdgeFaceTps

NextEdge ==
    \/ \E item \in EdgeCatalog : \E tpd \in EdgeTpFor(item) : \E size \in VideoSizes :
          Render(item, tpd, size)
    \/ ClearCache
    \/ \E item \in {i \in EdgeCatalog : i.textureUrl # ""} : \E loaded \in BOOLEAN :
          Preload(item, loaded)

SpecEdge == Init /\ [][NextEdge]_vars

(***************************************************************************)
(* ARVirtualTryOn as a state machine.  processFrame re-arms itself with    *)
(* requestAnimationFrame(processFrame), so the running loop keeps the props *)
(* and state of the render that started it (closure); the component's own  *)
(* state moves on without it.  Detector initialisation succeeds.           *)
(***************************************************************************)
ArCatalog ==
    {item \in Catalog :
        item.id \in {"earringAR", "earC", "neckA", "ringB", "braceletA", "watchB"}}

ArHands ==
    { <<>>,
      <<HandDesc("Right", 0, "straight")>>,
      <<HandDesc("Left", 0, "bent")>>,
      <<HandDesc("Left", 100, "straight"), HandDesc("Right", 100, "bent")>> }

\* what the camera shows: a face or none to a face tracker, hands or none to a
\* hand tracker
Scenes ==
    {[face |-> f, hands |-> <<>>] : f \in {NoDesc} \cup FaceDescs}
        \cup {[face |-> NoDesc, hands |-> h] : h \in ArHands}

Seen(trackingType_) ==
    IF trackingType_ = "face" THEN {seen \in Scenes : seen.hands = <<>>}
    ELSE IF trackingType_ = "hand" THEN {seen \in Scenes : seen.face = NoDesc}
    ELSE {[face |-> NoDesc, hands |-> <<>>]}

\* The selectedItem prop changes (or the component mounts with it) and the
\* effect runs initializeDetection, which ends in startProcessing().
InitializeDetection(item) ==
    /\ item # selectedItem
    /\ selectedItem' = item
    /\ trackingType' =
          IF item.type \in {"ring", "bracelet", "watch"} THEN "hand"
          ELSE IF item.type \in {"earring", "necklace", "glasses"} THEN "face"
          ELSE trackingType
    /\ closure' = [selectedItem |-> item, trackingType |-> trackingType,
                   itemAdjustments |-> itemAdjustments,
                   framesProcessed |-> framesProcessed]
    /\ call' = [op |-> "initializeDetection", item |-> item, sinceClear |-> FALSE]
    /\ UNCHANGED <<extVars, rendererVars, itemAdjustments, framesProcessed, frameSkip,
                   detectionResult, arDrawn>>

\* the last three entries of a sequence
LastIterations(seq) ==
    IF Len(seq) <= 3 THEN seq ELSE SubSeq(seq, Len(seq) - 2, Len(seq))

\* One animation frame of the running loop; seen is what is in front of the camera.
\* call.recent lists, for the latest iterations the loop made in a row under the
\* present frame-skip value, whether each attempted detection.
ProcessFrame(seen) ==
    /\ closure # NoClosure
    /\ closure.framesProcessed < MaxFrames
    /\ seen \in Seen(closure.trackingType)
    /\ LET frameCount == closure.framesProcessed + 1
           shouldProcessThisFrame == frameCount % (frameSkip + 1) = 0
           detected == IF closure.trackingType = "face" THEN FaceDetect(seen)
                       ELSE IF closure.trackingType = "hand" THEN HandDetect(seen)
                       ELSE NullDetection
           result == IF closure.trackingType = "face" /\ detected = NullDetection
                     THEN mockDetect
                     ELSE detected
       IN  /\ framesProcessed' = frameCount
           /\ detectionResult' = IF shouldProcessThisFrame THEN result ELSE NullDetection
           /\ arDrawn' = IF shouldProcessThisFrame
                         THEN drawARContent(result, closure.trackingType,
                                            closure.selectedItem, closure.itemAdjustments)
                         ELSE <<>>
           /\ call' = [op |-> "processFrame", seen |-> seen,
                       processed |-> shouldProcessThisFrame, sinceClear |-> FALSE,
                       skip |-> frameSkip,
                       recent |-> LastIterations(
                                     (IF call.op = "processFrame" /\ call.skip = frameSkip
                                      THEN call.recent ELSE <<>>)
                                     \o <<shouldProcessThisFrame>>)]
    /\ UNCHANGED <<extVars, rendererVars, selectedItem, trackingType, itemAdjustments,
                   frameSkip, closure>>

AdjustmentInputs == {<<"rotation", Num(-180)>>}

HandleAdjustmentChange(property, value) ==
    /\ itemAdjustments' = [itemAdjustments EXCEPT ![property] = value]
    /\ UNCHANGED <<extVars, rendererVars, call, selectedItem, trackingType, framesProcessed,
                   frameSkip, closure, detectionResult, arDrawn>>

ResetAdjustments ==
    /\ itemAdjustments' = defaultAdjustments
    /\ UNCHANGED <<extVars, rendererVars, call, selectedItem, trackingType, framesProcessed,
                   frameSkip, closure, detectionResult, arDrawn>>

\* quality changes and its effect runs updateQualitySettings(quality)
UpdateQualitySettings(qualityLevel) ==
    /\ frameSkip' = CASE qualityLevel = "high" -> 0
                      [] qualityLevel = "medium" -> 1
                      [] qualityLevel = "low" -> 2
                      [] OTHER -> 1
    /\ UNCHANGED <<extVars, rendererVars, call, selectedItem, trackingType, itemAdjustments,
                   framesProcessed, closure, detectionResult, arDrawn>>

NextAR ==
    \/ \E item \in ArCatalog : InitializeDetection(item)
    \/ \E seen \in Scenes : ProcessFrame(seen)
    \/ \E a \in AdjustmentInputs : HandleAdjustmentChange(a[1], a[2])
    \/ ResetAdjustments
    \/ \E qualityLevel \in {"high", "medium", "low"} : UpdateQualitySettings(qualityLevel)

SpecAR == Init /\ [][NextAR]_vars

(***************************************************************************)
(* The keypoint mappings as a state machine: one action per                *)
(* extractKeypoints call, on predictions whose landmark list is absent,    *)
(* not a list, empty, short, full or has entries missing.                  *)
(***************************************************************************)
\* a landmarks value that is no list: it has neither a length nor entries
Scalar == [scalar |-> TRUE]

HandMapLengths == {0, 1, 14, 15, 21, 22}

FaceMapLengths == {0, 94, 235, 455, 478}

FaceMapHoles == {{}, {234}, {234, 93}, {454, 323}}

FaceMapScales == {0, 1, 2}

HandMapPredictions ==
    {[handedness |-> "Right", keypoints |-> l] : l \in {Undefined, Scalar}}
    \cup {HandPrediction([HandDesc(side, t, shape) EXCEPT !.len = n]) :
            side \in {"Left", "Right"}, t \in Offsets, shape \in {"straight", "bent"},
            n \in HandMapLengths}

FaceMapPredictions ==
    {[keypoints |-> l] : l \in {Undefined, Scalar}}
    \cup {FacePrediction(d) :
            d \in [t : Offsets, len : FaceMapLengths, holes : FaceMapHoles, k : FaceMapScales]}

faceKeypointNames ==
    {"leftEar", "rightEar", "leftEye", "rightEye", "noseTip", "upperLip", "lowerLip"}

\* HandPoseDetector.extractKeypoints(prediction) with its way of ending: reading
\* landmarks.length of undefined is a TypeError; a value without a length never
\* enters the loop
HandExtractOutcome(prediction) ==
    LET landmarks == prediction.keypoints
    IN  IF landmarks = Undefined THEN [threw |-> TRUE, error |-> "TypeError"]
        ELSE IF landmarks = Scalar THEN [threw |-> FALSE, keypoints |-> <<>>]
        ELSE [threw |-> FALSE, keypoints |-> HandExtractKeypoints(prediction)]

\* FaceLandmarkDetector.extractKeypoints(prediction) with its way of ending: a
\* value without entries passes the length test and every name is assigned
\* undefined
FaceExtractOutcome(prediction) ==
    LET landmarks == prediction.keypoints
    IN  IF landmarks = Undefined THEN [threw |-> FALSE, keypoints |-> <<>>]
        ELSE IF landmarks = Scalar
        THEN [threw |-> FALSE, keypoints |-> [n \in faceKeypointNames |-> Undefined]]
        ELSE [threw |-> FALSE, keypoints |-> FaceExtractKeypoints(prediction)]

ExtractHand(prediction) ==
    /\ mapping' = [op |-> "hand", prediction |-> prediction,
                   outcome |-> HandExtractOutcome(prediction)]
    /\ UNCHANGED <<rendererVars, call, arVars, twin, loop, detector, app>>

ExtractFace(prediction) ==
    /\ mapping' = [op |-> "face", prediction |-> prediction,
                   outcome |-> FaceExtractOutcome(prediction)]
    /\ UNCHANGED <<rendererVars, call, arVars, twin, loop, detector, app>>

NextMap ==
    \/ \E prediction \in HandMapPredictions : ExtractHand(prediction)
    \/ \E prediction \in FaceMapPredictions : ExtractFace(prediction)

SpecMap == Init /\ [][NextMap]_vars

(***************************************************************************)
(* Two JewelryRenderer instances side by side.  Both are constructed       *)
(* fresh and receive the same render and clearCache calls with the same    *)
(* arguments; what each one managed to preload is its own.                 *)
(***************************************************************************)
TwinCatalog == {item \in Catalog : item.id \in {"earA", "earB", "neckA", "ringB", "watchA"}}

\* mutant of RendererStep: the smoothing cache is only written when the item's
\* images are in the texture cache
RendererStep_smoothsWhenCached(r, item, trackingPoints, size) ==
    LET res == render(r.smoothedPositions, r.textures, item, trackingPoints, size)
    IN  [smoothedPositions |-> IF res.drawn = <<>> THEN r.smoothedPositions ELSE res.sp,
         lastRenderedType |-> IF res.threw THEN r.lastRenderedType ELSE item.type,
         textures |-> r.textures, drawn |-> res.drawn, threw |-> res.threw]

\* the renderer r after await r.render(ctx, item, trackingPoints, width, height)
RendererStep(r, item, trackingPoints, size) ==
    LET res == render(r.smoothedPositions, r.textures, item, trackingPoints, size)
    IN  [smoothedPositions |-> res.sp,
         lastRenderedType |-> IF res.threw THEN r.lastRenderedType ELSE item.type,
         textures |-> r.textures, drawn |-> res.drawn, threw |-> res.threw]

\* the renderer r after r.clearCache()
RendererCleared(r) ==
    [r EXCEPT !.smoothedPositions = EmptyPositions, !.lastRenderedType = NullType,
              !.drawn = <<>>, !.threw = FALSE]

TwinRender(item, tpd, size) ==
    /\ twin.frame < MaxFrames
    /\ twin' = [a |-> RendererStep(twin.a, item, TrackingPoints(tpd), size),
                b |-> RendererStep(twin.b, item, TrackingPoints(tpd), size),
                frame |-> twin.frame + 1, op |-> "render"]
    /\ UNCHANGED <<rendererVars, call, arVars, mapping, loop, detector, app>>

TwinClearCache ==
    /\ twin' = [twin EXCEPT !.a = RendererCleared(@), !.b = RendererCleared(@),
                            !.op = "clearCache"]
    /\ UNCHANGED <<rendererVars, call, arVars, mapping, loop, detector, app>>

\* await one of the two renderers' preload(item); loaded tells whether its
\* texture load resolved
TwinPreload(which, item, loaded) ==
    /\ twin' = [twin EXCEPT ![which].textures =
                                IF item.textureUrl # "" /\ loaded
                                THEN @ \cup {item.textureUrl} ELSE @,
                            ![which].drawn = <<>>, ![which].threw = FALSE,
                            !.op = "preload"]
    /\ UNCHANGED <<rendererVars, call, arVars, mapping, loop, detector, app>>

NextTwin ==
    \/ \E item \in TwinCatalog : \E tpd \in TpFor(item) : \E size \in VideoSizes :
          TwinRender(item, tpd, size)
    \/ TwinClearCache
    \/ \E which \in {"a", "b"} : \E item \in TwinCatalog \cap Preloadable :
          \E loaded \in BOOLEAN : TwinPreload(which, item, loaded)

SpecTwin == Init /\ [][NextTwin]_vars

(***************************************************************************)
(* ARVirtualTryOn: processFrame with its awaits.  A frame loop is the      *)
(* chain of processFrame runs that one startProcessing call begins: each   *)
(* run ends by requesting the next one.  A run is split where it awaits    *)
(* the detector; drawARContent awaits nothing that leaves the microtask    *)
(* queue, so the overlay is drawn in the step in which detect resolves.    *)
(* A loop runs the processFrame of the render that started it:             *)
(* trackingType and framesProcessed are the values of that render.         *)
(*   pc "scheduled": its requestAnimationFrame callback is pending         *)
(*   pc "detecting": it awaits detect(video), started on video frame .frame*)
(*   pc "cancelled": its pending callback was cancelled                    *)
(* animationRef is the loop that made the latest request (0: null).        *)
(***************************************************************************)
\* processFrame of loop l up to its first await or its end
processFrameRun(L, l) ==
    LET p == L.procs[l]
        frameCount == p.framesProcessed + 1
        shouldProcessThisFrame == frameCount % (frameSkip + 1) = 0
        shown == [L EXCEPT !.canvas = L.video, !.overlay = NoOverlay]
    IN  IF shouldProcessThisFrame /\ ~L.processing /\ p.trackingType # "" /\ ~L.stopped
        THEN [shown EXCEPT !.processing = TRUE,
                           !.procs[l].pc = "detecting",
                           !.procs[l].frame = L.video]
        ELSE [shown EXCEPT !.procs[l].pc = "scheduled", !.animationRef = l,
                           !.requestedAfterStop = @ \/ L.stopped]

\* cancelAnimationFrame(animationRef.current)
cancelAnimationFrame(L) ==
    IF L.animationRef # 0 /\ L.procs[L.animationRef].pc = "scheduled"
    THEN [L EXCEPT !.procs[L.animationRef].pc = "cancelled"]
    ELSE L

\* the camera shows its next frame
VideoAdvance ==
    /\ loop.video < MaxVideoFrames
    /\ loop' = [loop EXCEPT !.video = @ + 1, !.op = "video"]
    /\ UNCHANGED <<rendererVars, call, arVars, mapping, twin, detector, app>>

\* initializeDetection reaches startProcessing(), in a render whose
\* trackingType and framesProcessed are the given ones
StartProcessing(tracking, frames) ==
    /\ Len(loop.procs) < MaxLoops
    /\ ~loop.stopped
    /\ LET cancelled == cancelAnimationFrame(loop)
           l == Len(loop.procs) + 1
           begun == [cancelled EXCEPT !.procs =
                        Append(@, [pc |-> "new", frame |-> 0, trackingType |-> tracking,
                                   framesProcessed |-> frames])]
       IN  loop' = [processFrameRun(begun, l) EXCEPT !.op = "startProcessing"]
    /\ UNCHANGED <<rendererVars, call, arVars, mapping, twin, detector, app>>

\* the browser runs the callback loop l requested
AnimationFrame(l) ==
    /\ l \in DOMAIN loop.procs
    /\ loop.procs[l].pc = "scheduled"
    /\ loop' = [processFrameRun(loop, l) EXCEPT !.op = "animationFrame"]
    /\ UNCHANGED <<rendererVars, call, arVars, mapping, twin, detector, app>>

\* the detect(video) loop l awaits resolves; with a result the overlay is drawn
\* on the canvas as it is now; then processingRef is released and the next
\* frame requested
DetectResolves(l, detected) ==
    /\ l \in DOMAIN loop.procs
    /\ loop.procs[l].pc = "detecting"
    /\ loop' = [loop EXCEPT !.overlay = IF detected
                                        THEN [of |-> loop.procs[l].frame, on |-> loop.canvas]
                                        ELSE @,
                            !.processing = FALSE,
                            !.procs[l].pc = "scheduled",
                            !.animationRef = l,
                            !.requestedAfterStop = @ \/ loop.stopped,
                            !.op = "detectResolves"]
    /\ UNCHANGED <<rendererVars, call, arVars, mapping, twin, detector, app>>

\* stopTracking(): the pending callback named by animationRef is cancelled,
\* animationRef and the detector refs are set to null
StopTracking ==
    /\ ~loop.stopped
    /\ loop' = [cancelAnimationFrame(loop) EXCEPT !.animationRef = 0, !.stopped = TRUE,
                                                  !.op = "stopTracking"]
    /\ UNCHANGED <<rendererVars, call, arVars, mapping, twin, detector, app>>

NextLoop ==
    \/ VideoAdvance
    \/ StopTracking
    \/ \E tracking \in {"", "face", "hand"} : \E frames \in {0, 1} :
          StartProcessing(tracking, frames)
    \/ \E l \in 1 .. MaxLoops : AnimationFrame(l)
    \/ \E l \in 1 .. MaxLoops : \E detected \in BOOLEAN : DetectResolves(l, detected)

SpecLoop == Init /\ [][NextLoop]_vars

(***************************************************************************)
(* HandPoseDetector.normalizeVector as a state machine: one action per     *)
(* call, on the vectors with small integer components whose magnitude is   *)
(* rational, so that the square root the code takes is exact.              *)
(***************************************************************************)
VectorCoords == -6 .. 6

SquaredMagnitude(vector) ==
    RAdd(RAdd(RMul(vector.x, vector.x), RMul(vector.y, vector.y)), RMul(vector.z, vector.z))

Vectors ==
    {v \in {Pt(Num(x), Num(y), Num(z)) : x \in VectorCoords, y \in VectorCoords, z \in VectorCoords} :
        RSquare(RSqrt(SquaredMagnitude(v))) = SquaredMagnitude(v)}

\* mutant of normalizeVector: the zero vector is replaced by the unit vector
\* along y
normalizeVector_unitFallback(vector) ==
    LET magnitude == RSqrt(SquaredMagnitude(vector))
    IN  IF magnitude = Num(0) THEN Pt(Num(0), Num(1), Num(0))
        ELSE Pt(RDiv(vector.x, magnitude), RDiv(vector.y, magnitude),
                RDiv(vector.z, magnitude))

normalizeVector(vector) ==
    LET magnitude == RSqrt(SquaredMagnitude(vector))
    IN  IF magnitude = Num(0) THEN Pt(Num(0), Num(0), Num(0))
        ELSE Pt(RDiv(vector.x, magnitude), RDiv(vector.y, magnitude),
                RDiv(vector.z, magnitude))

NormalizeVector(vector) ==
    /\ mapping' = [op |-> "normalizeVector", vector |-> vector,
                   outcome |-> normalizeVector(vector)]
    /\ UNCHANGED <<rendererVars, call, arVars, twin, loop, detector, app>>

NextVector == \E vector \in Vectors : NormalizeVector(vector)

SpecVector == Init /\ [][NextVector]_vars

(***************************************************************************)
(* A detector instance (FaceLandmarkDetector or HandPoseDetector) with the *)
(* clock performance.now().  initialize() sets model and isInitialized     *)
(* together when the model has loaded, dispose() clears both, so one flag  *)
(* stands for `isInitialized && model`.  Besides the object's fields the   *)
(* state records what the claims need of the history: the time of the last *)
(* call that ran inference (lastInference, -1 for none), whether           *)
(* initialize ever completed, whether the owner disposed the detector, and *)
(* the last call with its outcome.                                         *)
(***************************************************************************)
FaceInterval == 50

HandInterval == 100

IntervalOf(kind) == IF kind = "face" THEN FaceInterval ELSE HandInterval

ClockSteps == {25, 50}

\* new FaceLandmarkDetector() / new HandPoseDetector()
NewDetector(kind, now) ==
    [kind |-> kind, now |-> now, isInitialized |-> FALSE, initializing |-> 0,
     lastPredictionTime |-> 0, lastInference |-> -1, everInitialized |-> FALSE,
     disposedByOwner |-> FALSE, last |-> [op |-> "constructor"]]

\* mutant of detect: a rate-limited call stamps lastPredictionTime too
detect_stampsWhenLimited(d) ==
    LET call_ == [op |-> "detect", at |-> d.now, before |-> d.lastPredictionTime,
                  inferenceBefore |-> d.lastInference]
    IN  IF ~d.isInitialized
        THEN [d EXCEPT !.last = call_ @@ [outcome |-> "not initialized"]]
        ELSE IF d.now - d.lastPredictionTime < IntervalOf(d.kind)
        THEN [d EXCEPT !.lastPredictionTime = d.now, !.last = call_ @@ [outcome |-> "null"]]
        ELSE [d EXCEPT !.lastPredictionTime = d.now, !.lastInference = d.now,
                       !.last = call_ @@ [outcome |-> "inference"]]

\* detect(input): throws when not initialized, returns null inside the
\* interval, otherwise stamps lastPredictionTime and runs the model
detect(d) ==
    LET call_ == [op |-> "detect", at |-> d.now, before |-> d.lastPredictionTime,
                  inferenceBefore |-> d.lastInference]
    IN  IF ~d.isInitialized
        THEN [d EXCEPT !.last = call_ @@ [outcome |-> "not initialized"]]
        ELSE IF d.now - d.lastPredictionTime < IntervalOf(d.kind)
        THEN [d EXCEPT !.last = call_ @@ [outcome |-> "null"]]
        ELSE [d EXCEPT !.lastPredictionTime = d.now, !.lastInference = d.now,
                       !.last = call_ @@ [outcome |-> "inference"]]

\* dispose()
dispose(d) == [d EXCEPT !.isInitialized = FALSE]

\* updateConfig({detectionConfidence}): when initialized, dispose() and an
\* initialize() that nobody awaits
updateConfig(d) ==
    IF d.isInitialized
    THEN [dispose(d) EXCEPT !.initializing = @ + 1, !.last = [op |-> "updateConfig"]]
    ELSE [d EXCEPT !.last = [op |-> "updateConfig"]]

Construct(kind) ==
    /\ detector.kind = "none"
    /\ detector' = NewDetector(kind, detector.now)
    /\ UNCHANGED <<rendererVars, call, arVars, mapping, twin, loop, app>>

\* time passes
Tick(step) ==
    /\ detector.now + step <= MaxClock
    /\ detector' = [detector EXCEPT !.now = @ + step]
    /\ UNCHANGED <<rendererVars, call, arVars, mapping, twin, loop, app>>

\* the owner calls initialize()
Initialize ==
    /\ detector.kind # "none"
    /\ ~detector.isInitialized /\ detector.initializing = 0 /\ ~detector.disposedByOwner
    /\ detector' = [detector EXCEPT !.initializing = 1, !.last = [op |-> "initialize"]]
    /\ UNCHANGED <<rendererVars, call, arVars, mapping, twin, loop, app>>

\* an initialize() in flight ends: the model loaded (ok) or loading failed
InitializeEnds(ok) ==
    /\ detector.kind # "none"
    /\ detector.initializing > 0
    /\ detector' = [detector EXCEPT !.initializing = @ - 1,
                                    !.isInitialized = IF ok THEN TRUE ELSE @,
                                    !.everInitialized = IF ok THEN TRUE ELSE @,
                                    !.last = [op |-> "initializeEnds", ok |-> ok]]
    /\ UNCHANGED <<rendererVars, call, arVars, mapping, twin, loop, app>>

Detect ==
    /\ detector.kind # "none"
    /\ detector' = detect(detector)
    /\ UNCHANGED <<rendererVars, call, arVars, mapping, twin, loop, app>>

\* a quality change: updateQualitySettings calls updateConfig
UpdateConfig ==
    /\ detector.kind # "none"
    /\ detector' = updateConfig(detector)
    /\ UNCHANGED <<rendererVars, call, arVars, mapping, twin, loop, app>>

\* the owner disposes the detector (stopTracking)
Dispose ==
    /\ detector.kind # "none"
    /\ detector' = [dispose(detector) EXCEPT !.disposedByOwner = TRUE,
                                             !.last = [op |-> "dispose"]]
    /\ UNCHANGED <<rendererVars, call, arVars, mapping, twin, loop, app>>

NextDetector ==
    \/ \E kind \in {"face", "hand"} : Construct(kind)
    \/ \E step \in ClockSteps : Tick(step)
    \/ Initialize
    \/ \E ok \in BOOLEAN : InitializeEnds(ok)
    \/ Detect
    \/ UpdateConfig
    \/ Dispose

SpecDetector == Init /\ [][NextDetector]_vars

(***************************************************************************)
(* App: the select / capture / results flow.  processMedia is split at its *)
(* await: the call is in flight, with the media and the selectedJewelry of *)
(* the render it was called in, until its timer ends.  The main content    *)
(* (selector, capture view, results) is rendered only while isProcessing   *)
(* is false; the app bar's "New Try-On" button is always there.            *)
(***************************************************************************)
AppItems == {[id |-> "earA"], [id |-> "ringA"]}

MediaTypes == {"photo", "video"}

\* JewelrySelector's onSelectJewelry
HandleJewelrySelect(item) ==
    /\ app.currentView = "select" /\ ~app.isProcessing
    /\ app' = [app EXCEPT !.selectedJewelry = item, !.currentView = "capture",
                          !.sinceReset = FALSE, !.op = "handleJewelrySelect"]
    /\ UNCHANGED <<rendererVars, call, arVars, mapping, twin, loop, detector>>

\* UserMediaCapture's onMediaCaptured: processMedia(media) starts and awaits
HandleMediaCaptured(type) ==
    /\ app.currentView = "capture" /\ ~app.isProcessing
    /\ Len(app.inFlight) < MaxProcessing
    /\ app' = [app EXCEPT !.mediaSource = [type |-> type], !.isProcessing = TRUE,
                          !.inFlight = Append(@, [type |-> type,
                                                  item |-> app.selectedJewelry]),
                          !.op = "handleMediaCaptured"]
    /\ UNCHANGED <<rendererVars, call, arVars, mapping, twin, loop, detector>>

\* the processMedia call in flight at position i gets past its awaits
ProcessMediaEnds(i) ==
    /\ i \in DOMAIN app.inFlight
    /\ app' = [app EXCEPT !.processedMedia = app.inFlight[i],
                          !.currentView = "results",
                          !.isProcessing = FALSE,
                          !.inFlight = SubSeq(@, 1, i - 1) \o SubSeq(@, i + 1, Len(@)),
                          !.op = "processMediaEnds"]
    /\ UNCHANGED <<rendererVars, call, arVars, mapping, twin, loop, detector>>

\* "Back to Selection" in the capture view
BackToSelection ==
    /\ app.currentView = "capture" /\ ~app.isProcessing
    /\ app' = [app EXCEPT !.currentView = "select", !.op = "backToSelection"]
    /\ UNCHANGED <<rendererVars, call, arVars, mapping, twin, loop, detector>>

\* resetFlow: "New Try-On" / "Try Another Item"
ResetFlow ==
    /\ app' = [app EXCEPT !.selectedJewelry = NoItem, !.mediaSource = NoItem,
                          !.processedMedia = NoItem, !.currentView = "select",
                          !.isProcessing = FALSE, !.sinceReset = TRUE,
                          !.op = "resetFlow"]
    /\ UNCHANGED <<rendererVars, call, arVars, mapping, twin, loop, detector>>

NextApp ==
    \/ \E item \in AppItems : HandleJewelrySelect(item)
    \/ \E type \in MediaTypes : HandleMediaCaptured(type)
    \/ \E i \in 1 .. MaxProcessing : ProcessMediaEnds(i)
    \/ BackToSelection
    \/ ResetFlow

SpecApp == Init /\ [][NextApp]_vars

(***************************************************************************)
(* Vocabulary of the claims.                                               *)
(***************************************************************************)
Slots == {"earrings.left", "earrings.right", "necklace", "ring", "bracelet", "watch"}

SlotVal(sp, s) ==
    CASE s = "earrings.left" -> sp.earrings.left
      [] s = "earrings.right" -> sp.earrings.right
      [] s = "necklace" -> sp.necklace
      [] s = "ring" -> sp.ring
      [] s = "bracelet" -> sp.bracelet
      [] s = "watch" -> sp.watch

SlotsOfType(type) ==
    IF type = "earrings" THEN {"earrings.left", "earrings.right"}
    ELSE IF type \in {"necklace", "ring", "bracelet", "watch"} THEN {type}
    ELSE {}

IsRender == call.op = "render"

CallTp == TrackingPoints(call.tp)

\* the anchor a hand item takes on a given hand
HandAnchor(item, hand) ==
    IF item.type = "ring" THEN getFingerRingPosition(hand, OrInt(item.fingerIndex, 3))
    ELSE IF item.type = "bracelet" THEN getWristPosition(hand)
    ELSE getWatchPosition(hand)

\* The raw anchor the last render call resolved for slot s from its tracking
\* points, Undefined when it resolved none.
Candidate(s) ==
    LET item == call.item
        tp == CallTp
        hand == rendererChooseHand(item, tp)
    IN  IF s \notin SlotsOfType(item.type) THEN Undefined
        ELSE IF item.type \in {"earrings", "necklace"}
        THEN IF ~Truthy(tp.face) THEN Undefined
             ELSE IF item.type = "necklace" THEN getNeckPosition(tp.face)
             ELSE IF ~Truthy(getLeftEarringPosition(tp.face))
                     \/ ~Truthy(getRightEarringPosition(tp.face)) THEN Undefined
             ELSE IF s = "earrings.left" THEN getLeftEarringPosition(tp.face)
             ELSE getRightEarringPosition(tp.face)
        ELSE IF ~Truthy(hand) THEN Undefined
             ELSE HandAnchor(item, hand)

P3(v) == Pt(Num(v), Num(v), Num(v))

Shift(p, dx, dy, dz) == Pt(RAdd(p.x, Num(dx)), RAdd(p.y, Num(dy)), RAdd(p.z, Num(dz)))

\* a * wa/10 + b * wb/10, component by component
Weighted(a, wa, b, wb) ==
    Pt(RAdd(RMul(a.x, Rat(wa, 10)), RMul(b.x, Rat(wb, 10))),
       RAdd(RMul(a.y, Rat(wa, 10)), RMul(b.y, Rat(wb, 10))),
       RAdd(RMul(a.z, Rat(wa, 10)), RMul(b.z, Rat(wb, 10))))

ImageOf(item, s) ==
    IF s = "earrings.left" THEN item.leftImageUrl
    ELSE IF s = "earrings.right" THEN item.rightImageUrl
    ELSE item.imageUrl

DrawnSlots == {drawn[i].slot : i \in DOMAIN drawn}

IsFrame == call.op = "processFrame" /\ call.processed

\* the joints of the finger a ring item is worn on
RingMcp(item, hand) == Lm(hand.landmarks, OrInt(item.fingerIndex, 3) * 4 + 1)

RingPip(item, hand) == Lm(hand.landmarks, OrInt(item.fingerIndex, 3) * 4 + 2)

(***************************************************************************)
(* C1                                                                      *)
(***************************************************************************)
\* the hands C1 lets a hand item be anchored on
ClaimedHands(item, tp) ==
    LET preferred == IF item.preferredHand = "left" THEN tp.leftHand
                     ELSE IF item.preferredHand = "right" THEN tp.rightHand
                     ELSE Undefined
    IN  IF Truthy(preferred) THEN {preferred}
        ELSE {h \in {tp.leftHand, tp.rightHand} : Truthy(h)}

\* C1, as stated: a ring, bracelet or watch is anchored on the hand of the
\* preferred handedness when that hand is detected and otherwise on a detected
\* hand, so whenever any hand is detected the render call leaves in the item's
\* slot the position smoothed from such a hand's anchor (with preferredHand =
\* left and only a right hand, the right hand's).
C1_HandSelection ==
    (IsRender /\ call.item.type \in HandTypes) =>
        LET hands == ClaimedHands(call.item, CallTp)
            s == call.item.type
        IN  hands # {} =>
               \E h \in hands :
                  /\ Truthy(HandAnchor(call.item, h))
                  /\ SlotVal(smoothedPositions, s) =
                        smoothPosition(SlotVal(pre, s), HandAnchor(call.item, h),
                                       smoothingFactor)

(***************************************************************************)
(* C2                                                                      *)
(***************************************************************************)
\* C2: when a slot holds a previous position and the render call resolves an
\* anchor for it, the slot's new stored position is, in each of x, y and z,
\* previous * 7/10 + anchor * 3/10, and that stored position is the one drawn.
C2_SmoothingFormula ==
    IsRender =>
        \A s \in Slots :
            (Truthy(SlotVal(pre, s)) /\ Truthy(Candidate(s))) =>
                /\ SlotVal(smoothedPositions, s) =
                      Weighted(SlotVal(pre, s), 7, Candidate(s), 3)
                /\ \A i \in DOMAIN drawn :
                      drawn[i].slot = s =>
                         /\ drawn[i].x = RMul(SlotVal(smoothedPositions, s).x,
                                              Num(call.size.width))
                         /\ drawn[i].y = RMul(SlotVal(smoothedPositions, s).y,
                                              Num(call.size.height))

\* previous = 100 and current = 0 in every component give exactly 70
C2_Witness ==
    /\ IsRender
    /\ call.item.type = "bracelet"
    /\ pre.bracelet = P3(100)
    /\ Candidate("bracelet") = P3(0)
    /\ smoothedPositions.bracelet = P3(70)

(***************************************************************************)
(* C3                                                                      *)
(***************************************************************************)
\* C3: when a slot holds no previous position (after construction or after
\* clearCache) and the render call resolves an anchor for it, the anchor itself
\* becomes the slot's stored position and is the position drawn.
C3_FirstObservation ==
    IsRender =>
        \A s \in Slots :
            (~Truthy(SlotVal(pre, s)) /\ Truthy(Candidate(s))) =>
                /\ SlotVal(smoothedPositions, s) = Candidate(s)
                /\ \A i \in DOMAIN drawn :
                      drawn[i].slot = s =>
                         /\ drawn[i].x = RMul(Candidate(s).x, Num(call.size.width))
                         /\ drawn[i].y = RMul(Candidate(s).y, Num(call.size.height))

C3_Witness ==
    /\ IsRender
    /\ call.item.type = "ring"
    /\ ~Truthy(pre.ring)
    /\ Truthy(Candidate("ring"))
    /\ Candidate("ring") # Pt(Num(0), Num(0), Num(0))
    /\ smoothedPositions.ring = Candidate("ring")
    /\ "ring" \in DrawnSlots

(***************************************************************************)
(* C4                                                                      *)
(***************************************************************************)
\* C4, as stated: a slot that holds a position and gets no anchor in this
\* render call keeps its position and the call still produces the slot's
\* placement at that held position.
C4_OcclusionHold ==
    IsRender =>
        \A s \in SlotsOfType(call.item.type) :
            (Truthy(SlotVal(pre, s)) /\ ~Truthy(Candidate(s))
                /\ ImageOf(call.item, s) \in textures) =>
                /\ SlotVal(smoothedPositions, s) = SlotVal(pre, s)
                /\ \E i \in DOMAIN drawn :
                      /\ drawn[i].slot = s
                      /\ drawn[i].x = RMul(SlotVal(pre, s).x, Num(call.size.width))
                      /\ drawn[i].y = RMul(SlotVal(pre, s).y, Num(call.size.height))

(***************************************************************************)
(* C5                                                                      *)
(***************************************************************************)
\* C5, as stated: when the item rendered is a different item of the same
\* category as the item of the render call before it, the position stored and
\* drawn for it is its raw anchor of this frame.
C5_KeyedByItem ==
    (IsRender /\ call.prevItem # NoItem /\ call.prevItem.type = call.item.type
        /\ call.prevItem.id # call.item.id) =>
        \A s \in Slots :
            Truthy(Candidate(s)) => SlotVal(smoothedPositions, s) = Candidate(s)

(***************************************************************************)
(* C6                                                                      *)
(***************************************************************************)
\* C6: clearCache leaves no stored position in any of the six slots, whatever
\* they held, and a render call that follows it stores every anchor it resolves
\* unsmoothed.
C6_ResetClearsAll ==
    /\ call.op = "clearCache" =>
          /\ \A s \in Slots : SlotVal(smoothedPositions, s) = Undefined
          /\ lastRenderedType = NullType
    /\ (IsRender /\ call.afterClear) =>
          \A s \in Slots :
              Truthy(Candidate(s)) => SlotVal(smoothedPositions, s) = Candidate(s)

\* a clearCache that had slots of two categories to clear
C6_Witness ==
    /\ call.op = "clearCache"
    /\ Cardinality({s \in Slots : Truthy(SlotVal(pre, s))}) >= 3
    /\ \A s \in Slots : ~Truthy(SlotVal(smoothedPositions, s))

(***************************************************************************)
(* C7                                                                      *)
(***************************************************************************)
\* C7, as stated: a render of earrings on a face whose keypoints hold leftEar
\* and rightEar produces exactly two placements, the left one at the left
\* earring slot's position and the right one at the right's, with one scale and
\* one rotation; with an ear missing it produces none.
C7_EarringsPair ==
    (IsRender /\ call.item.type = "earrings") =>
        LET face == CallTp.face
            k == IF Truthy(face) THEN FaceKeypoints(face) ELSE <<>>
        IN  IF Truthy(Kp(k, "leftEar")) /\ Truthy(Kp(k, "rightEar"))
            THEN /\ Len(drawn) = 2
                 /\ drawn[1].slot = "earrings.left"
                 /\ drawn[1].x = RMul(smoothedPositions.earrings.left.x,
                                      Num(call.size.width))
                 /\ drawn[2].slot = "earrings.right"
                 /\ drawn[2].x = RMul(smoothedPositions.earrings.right.x,
                                      Num(call.size.width))
                 /\ drawn[1].size = drawn[2].size
                 /\ drawn[1].rotation = drawn[2].rotation
            ELSE drawn = <<>>

(***************************************************************************)
(* C8                                                                      *)
(***************************************************************************)
\* C8, as stated: the ring anchor is 0.3 * MCP + 0.7 * PIP, the hand mapping's
\* ring_position is the same blend of the ring finger's MCP and PIP, and a PIP
\* 10 along x from the MCP puts the anchor 3 along x from the MCP.
C8_RingPointAsStated ==
    (IsRender /\ call.item.type = "ring") =>
        LET hand == rendererChooseHand(call.item, CallTp)
        IN  Truthy(hand) =>
            LET mcp == RingMcp(call.item, hand)
                pip == RingPip(call.item, hand)
                k == HandKeypoints(hand)
            IN  /\ smoothedPositions.ring =
                      smoothPosition(pre.ring, Weighted(mcp, 3, pip, 7), smoothingFactor)
                /\ Kp(k, "ring_position") =
                      Weighted(Kp(k, "ring_finger_mcp"), 3, Kp(k, "ring_finger_pip"), 7)
                /\ (pip = Shift(mcp, 10, 0, 0) /\ ~Truthy(pre.ring)) =>
                      smoothedPositions.ring = Shift(mcp, 3, 0, 0)

\* C8, amended: the renderer's ring anchor is 0.3 * MCP + 0.7 * PIP of the
\* item's finger, so a PIP 10 along x from the MCP puts it 7 along x from the
\* MCP; the hand mapping's ring_position is the midpoint of the ring finger's
\* MCP and PIP.
C8_RingPoint ==
    (IsRender /\ call.item.type = "ring") =>
        LET hand == rendererChooseHand(call.item, CallTp)
        IN  Truthy(hand) =>
            LET mcp == RingMcp(call.item, hand)
                pip == RingPip(call.item, hand)
                k == HandKeypoints(hand)
            IN  /\ smoothedPositions.ring =
                      smoothPosition(pre.ring, Weighted(mcp, 3, pip, 7), smoothingFactor)
                /\ Kp(k, "ring_position") =
                      Weighted(Kp(k, "ring_finger_mcp"), 5, Kp(k, "ring_finger_pip"), 5)
                /\ (pip = Shift(mcp, 10, 0, 0) /\ ~Truthy(pre.ring)) =>
                      smoothedPositions.ring = Shift(mcp, 7, 0, 0)

C8_Witness ==
    /\ IsRender
    /\ call.item.type = "ring"
    /\ Truthy(rendererChooseHand(call.item, CallTp))
    /\ ~Truthy(pre.ring)
    /\ LET hand == rendererChooseHand(call.item, CallTp)
           mcp == RingMcp(call.item, hand)
       IN  /\ RingPip(call.item, hand) = Shift(mcp, 10, 0, 0)
           /\ smoothedPositions.ring = Shift(mcp, 7, 0, 0)
           /\ OrInt(call.item.fingerIndex, 3) = 3
           /\ Kp(HandKeypoints(hand), "ring_position") = Shift(mcp, 5, 0, 0)

(***************************************************************************)
(* C9                                                                      *)
(***************************************************************************)
\* C9, as stated: a ring is drawn rotated by the angle, in degrees, of the
\* vector from its finger's MCP to its PIP (the renderer has no rotation offset
\* to add).
C9_RingRotation ==
    (IsRender /\ call.item.type = "ring" /\ "ring" \in DrawnSlots) =>
        LET hand == rendererChooseHand(call.item, CallTp)
            mcp == RingMcp(call.item, hand)
            pip == RingPip(call.item, hand)
        IN  drawn[1].rotation = Atan2Deg(RSub(pip.y, mcp.y), RSub(pip.x, mcp.x))

(***************************************************************************)
(* C10                                                                     *)
(***************************************************************************)
\* C10, as stated: the live view draws a watch at the target hand's
\* wrist * 0.8 + pinky_mcp * 0.2 and a bracelet at the target hand's wrist
\* (each moved by the user's offsets).
C10_WatchAnchor ==
    (IsFrame /\ closure.trackingType = "hand" /\ detectionResult # NullDetection
        /\ closure.selectedItem.type \in {"bracelet", "watch"}
        /\ closure.selectedItem.imageUrl # "") =>
        LET item == closure.selectedItem
            hand == targetHandOf(Detections(detectionResult), item)
            k == HandKeypoints(hand)
            anchor == IF item.type = "watch"
                      THEN Weighted(Kp(k, "wrist"), 8, Kp(k, "pinky_mcp"), 2)
                      ELSE Kp(k, "wrist")
        IN  /\ Len(arDrawn) = 1
            /\ arDrawn[1].x = RAdd(anchor.x, closure.itemAdjustments.xOffset)
            /\ arDrawn[1].y = RAdd(anchor.y, closure.itemAdjustments.yOffset)

(***************************************************************************)
(* C11                                                                     *)
(***************************************************************************)
\* C11, as stated: every placement a render call draws has a size factor
\* strictly greater than 0, whatever the item's sizeAdjustment.
C11_ScalePositive ==
    IsRender => \A i \in DOMAIN drawn : RPos(drawn[i].size)

(***************************************************************************)
(* C12                                                                     *)
(***************************************************************************)
\* the landmark indices a render of the item reads for anchor, scale and rotation
NeededLandmarks(item) ==
    LET f == OrInt(item.fingerIndex, 3)
    IN  CASE item.type = "earrings" -> {234, 454, 27, 33}
          [] item.type = "necklace" -> {152, 234, 454}
          [] item.type = "ring" ->
                {f * 4 + 1, f * 4 + 2, f * 4 + 4,
                 Max2(0, f - 1) * 4 + 1, Min2(4, f + 1) * 4 + 1}
          [] item.type \in {"bracelet", "watch"} -> {0, 1, 9, 17}
          [] OTHER -> {}

\* the tracked face or hand the render of the item works on
TrackedFor(item, tp) ==
    IF item.type \in HandTypes THEN rendererChooseHand(item, tp) ELSE tp.face

\* C12, as stated: a render call for which a landmark needed by the item's
\* category is absent completes without throwing, draws no placement and leaves
\* the smoothing cache as it was.
C12_MissingLandmarks ==
    (IsRender /\ NeededLandmarks(call.item) # {}) =>
        LET tracked == TrackedFor(call.item, CallTp)
        IN  (~Truthy(tracked)
                \/ \E i \in NeededLandmarks(call.item) : ~Truthy(Lm(tracked.landmarks, i))) =>
                /\ ~threw
                /\ drawn = <<>>
                /\ smoothedPositions = pre

(***************************************************************************)
(* C13                                                                     *)
(***************************************************************************)
\* C13, as stated: in a render of earrings that resolved both ear anchors, the
\* right earring is drawn whenever its own image is available, whatever
\* happened to the left earring.
C13_ElementIsolation ==
    (IsRender /\ call.item.type = "earrings" /\ ~threw
        /\ Truthy(Candidate("earrings.left")) /\ Truthy(Candidate("earrings.right"))
        /\ call.item.rightImageUrl \in textures) =>
        "earrings.right" \in DrawnSlots

(***************************************************************************)
(* C18                                                                     *)
(***************************************************************************)
SupportedTypes == {"earrings", "necklace", "ring", "bracelet", "watch"}

\* C18, as stated: a render of an item whose category is none of the supported
\* ones is reported to the caller as an error, leaves the smoothing cache as it
\* was and does not record the category as the last rendered one.
C18_UnsupportedCategory ==
    (IsRender /\ call.item.type \notin SupportedTypes) =>
        /\ threw
        /\ smoothedPositions = pre
        /\ lastRenderedType # call.item.type

(***************************************************************************)
(* C20                                                                     *)
(***************************************************************************)
\* the finger C20 places a ring on: the configured index, 3 only when the
\* item carries none
ConfiguredFinger(item) == IF item.fingerIndex = None THEN 3 ELSE item.fingerIndex.v

\* C20, as stated: a ring rendered on a hand whose configured finger has its
\* MCP and PIP joints is anchored between those two joints of that finger
\* (index 0, the thumb, included); the ring finger is used only when the item
\* has no fingerIndex.
C20_ConfiguredFinger ==
    (IsRender /\ call.item.type = "ring") =>
        LET hand == rendererChooseHand(call.item, CallTp)
            f == ConfiguredFinger(call.item)
        IN  (/\ Truthy(hand)
             /\ Truthy(Lm(hand.landmarks, f * 4 + 1))
             /\ Truthy(Lm(hand.landmarks, f * 4 + 2))) =>
                smoothedPositions.ring =
                    smoothPosition(pre.ring,
                                   Weighted(Lm(hand.landmarks, f * 4 + 1), 3,
                                            Lm(hand.landmarks, f * 4 + 2), 7),
                                   smoothingFactor)

(***************************************************************************)
(* C16                                                                     *)
(***************************************************************************)
\* the landmark list handed to the last mapping call
MappedLandmarks == mapping.prediction.keypoints

\* a landmark input that is absent, not a list, or empty
Malformed(landmarks) ==
    landmarks = Undefined \/ landmarks = Scalar \/ LmLength(landmarks) = 0

\* C16, as stated: a mapping call on an absent, non-list or empty landmark
\* input fails with an error instead of returning a set; on any other input, however
\* short, it returns a keypoint set without throwing, and the hand mapping's
\* set has no name whose index lies past the end of the input.
C16_ShortOrBadInput ==
    mapping.op # "none" =>
        IF Malformed(MappedLandmarks)
        THEN mapping.outcome.threw
        ELSE /\ ~mapping.outcome.threw
             /\ mapping.op = "hand" =>
                    \A i \in 1 .. Len(handLandmarkNames) :
                        i - 1 >= LmLength(MappedLandmarks) =>
                            handLandmarkNames[i] \notin DOMAIN mapping.outcome.keypoints

(***************************************************************************)
(* C17                                                                     *)
(***************************************************************************)
\* the landmark index the face mapping's table gives a name
faceLandmarkIndex(name) ==
    CASE name = "leftEar" -> 234
      [] name = "rightEar" -> 454
      [] name = "leftEye" -> 33
      [] name = "rightEye" -> 263
      [] name = "noseTip" -> 1
      [] name = "upperLip" -> 13
      [] name = "lowerLip" -> 14

\* the landmark the detector reported for a name of the last mapping call
ReportedFor(name) ==
    IF mapping.op = "face"
    THEN IF MappedLandmarks = Scalar THEN Undefined
         ELSE Lm(MappedLandmarks, faceLandmarkIndex(name))
    ELSE Lm(MappedLandmarks,
            (CHOOSE i \in 1 .. Len(handLandmarkNames) : handLandmarkNames[i] = name) - 1)

TableNames ==
    IF mapping.op = "face" THEN faceKeypointNames
    ELSE {handLandmarkNames[i] : i \in 1 .. Len(handLandmarkNames)}

\* C17, as stated: every table name in the set a mapping call returned holds a
\* point, and that point is the landmark the detector reported at the name's
\* own index.
C17_OnlyReported ==
    (mapping.op # "none" /\ ~mapping.outcome.threw) =>
        \A name \in DOMAIN mapping.outcome.keypoints \cap TableNames :
            /\ Truthy(mapping.outcome.keypoints[name])
            /\ mapping.outcome.keypoints[name] = ReportedFor(name)

(***************************************************************************)
(* C19                                                                     *)
(***************************************************************************)
\* the square of the distance between two points
SquaredDistance(a, b) ==
    RAdd(RAdd(RSquare(RSub(b.x, a.x)), RSquare(RSub(b.y, a.y))), RSquare(RSub(b.z, a.z)))

\* how far neckBase lies below the lower ear in a keypoint set
NeckOffset(k) == RSub(k["neckBase"].y, RMax(k["leftEar"].y, k["rightEar"].y))

\* the keypoint set of a face of unit size, the reference of the proportion
UnitFaceKeypoints ==
    FaceExtractKeypoints(FacePrediction([t |-> 0, len |-> 478, holes |-> {}, k |-> 1]))

\* C19, as stated: the face mapping's set has neckBase exactly when it has both
\* ears; neckBase's x and z are the ears' midpoint; its offset below the ears
\* is 0 exactly when the ears coincide and is in the same proportion to the
\* inter-ear distance as on a face of unit size.
C19_NeckBase ==
    (mapping.op = "face" /\ ~mapping.outcome.threw) =>
        LET k == mapping.outcome.keypoints
            bothEars == Truthy(Kp(k, "leftEar")) /\ Truthy(Kp(k, "rightEar"))
        IN  /\ ("neckBase" \in DOMAIN k) <=> bothEars
            /\ bothEars =>
                  LET d2 == SquaredDistance(k["leftEar"], k["rightEar"])
                      u2 == SquaredDistance(UnitFaceKeypoints["leftEar"],
                                            UnitFaceKeypoints["rightEar"])
                  IN  /\ k["neckBase"].x = Midpoint(k["leftEar"], k["rightEar"]).x
                      /\ k["neckBase"].z = Midpoint(k["leftEar"], k["rightEar"]).z
                      /\ (NeckOffset(k) = Num(0)) <=> (k["leftEar"] = k["rightEar"])
                      /\ RMul(RSquare(NeckOffset(k)), u2)
                            = RMul(RSquare(NeckOffset(UnitFaceKeypoints)), d2)

C14_FrameOrdering ==
    /\ \A l \in DOMAIN loop.procs :
          loop.procs[l].pc = "detecting" => loop.canvas = loop.procs[l].frame
    /\ loop.overlay # NoOverlay => loop.overlay.of = loop.overlay.on

(***************************************************************************)
(* C21                                                                     *)
(***************************************************************************)
\* C21, as stated: the live view draws a bracelet or a watch on a hand that
\* carries an orientation with the rotation roll + rotation adjustment,
\* whatever the two values are.
C21_RollPlusAdjustment ==
    (IsFrame /\ closure.trackingType = "hand" /\ detectionResult # NullDetection
        /\ closure.selectedItem.type \in {"bracelet", "watch"}
        /\ arDrawn # <<>>) =>
        LET hand == targetHandOf(Detections(detectionResult), closure.selectedItem)
        IN  arDrawn[1].rotation =
                RAdd(HandOrientation(hand).angles.roll, closure.itemAdjustments.rotation)

(***************************************************************************)
(* C22                                                                     *)
(***************************************************************************)
ZeroVector == Pt(Num(0), Num(0), Num(0))

\* C22: normalizeVector maps the zero vector to (0, 0, 0); it maps any other
\* vector to the vector of length 1 that, multiplied by a positive magnitude
\* whose square is the squared length of the argument, gives the argument
\* back: each component divided by the magnitude.
C22_Normalize ==
    mapping.op = "normalizeVector" =>
        LET v == mapping.vector
            u == mapping.outcome
        IN  IF v = ZeroVector THEN u = ZeroVector
            ELSE /\ SquaredMagnitude(u) = Num(1)
                 /\ \E m \in 1 .. 11 :
                       /\ Num(m * m) = SquaredMagnitude(v)
                       /\ RMul(u.x, Num(m)) = v.x
                       /\ RMul(u.y, Num(m)) = v.y
                       /\ RMul(u.z, Num(m)) = v.z

\* the zero vector was normalised
C22_Witness ==
    /\ mapping.op = "normalizeVector"
    /\ mapping.vector = ZeroVector
    /\ mapping.outcome = ZeroVector

(***************************************************************************)
(* C23                                                                     *)
(***************************************************************************)
\* C23, as stated: whenever the loop has made k + 1 iterations in a row under
\* the frame-skip value k, exactly one of them attempted detection.
C23_FrameSkipping ==
    (call.op = "processFrame" /\ Len(call.recent) >= call.skip + 1) =>
        Cardinality({i \in (Len(call.recent) - call.skip) .. Len(call.recent) :
                        call.recent[i]}) = 1

(***************************************************************************)
(* C24                                                                     *)
(***************************************************************************)
\* C24: a detect call that runs inference comes at least the detector's
\* interval (50 ms face, 100 ms hand) after the previous call that ran
\* inference; a detect call on an initialized detector made less than the
\* interval after the last call that ran inference returns null, runs no
\* inference and leaves lastPredictionTime as it was.
C24_RateLimit ==
    (detector.kind # "none" /\ detector.last.op = "detect"
        /\ detector.last.inferenceBefore >= 0) =>
        LET since == detector.last.at - detector.last.inferenceBefore
        IN  /\ detector.last.outcome = "inference" => since >= IntervalOf(detector.kind)
            /\ (since < IntervalOf(detector.kind)
                    /\ detector.last.outcome # "not initialized") =>
                  /\ detector.last.outcome = "null"
                  /\ detector.lastPredictionTime = detector.last.before
                  /\ detector.lastInference = detector.last.inferenceBefore

\* a hand detector asked again 75 ms after a call that ran inference, the
\* second call in a row inside the interval
C24_Witness ==
    /\ detector.kind = "hand"
    /\ detector.last.op = "detect"
    /\ detector.last.outcome = "null"
    /\ detector.last.inferenceBefore >= 0
    /\ detector.last.at - detector.last.inferenceBefore = 75
    /\ detector.lastPredictionTime = detector.last.inferenceBefore

(***************************************************************************)
(* C28                                                                     *)
(***************************************************************************)
\* C28, as stated: a detect call on a detector whose initialize completed and
\* which its owner has not disposed never fails with 'not initialized'.
C28_UsableAfterReconfigure ==
    (detector.kind # "none" /\ detector.last.op = "detect"
        /\ detector.everInitialized /\ ~detector.disposedByOwner) =>
        detector.last.outcome # "not initialized"

(***************************************************************************)
(* C25                                                                     *)
(***************************************************************************)
\* C25, as stated: a processed frame of a face-tracking loop on which the
\* face detector returned no result draws no placement and has no detection
\* result (tracking is reported as not detected).
C25_NoFabricatedDetection ==
    (IsFrame /\ closure.trackingType = "face" /\ FaceDetect(call.seen) = NullDetection) =>
        /\ arDrawn = <<>>
        /\ detectionResult = NullDetection

(***************************************************************************)
(* C26                                                                     *)
(***************************************************************************)
\* the frame loops that will run processFrame again: a callback of theirs is
\* pending or they are inside a run
RunningLoops == {l \in DOMAIN loop.procs : loop.procs[l].pc \in {"scheduled", "detecting"}}

\* C26, as stated: at most one frame loop is running at any time.
C26_SingleLoop == Cardinality(RunningLoops) <= 1

(***************************************************************************)
(* C27                                                                     *)
(***************************************************************************)
\* C27, as stated: once stopTracking ran, no frame loop requests another
\* animation frame.
C27_NoFrameAfterStop == ~loop.requestedAfterStop

(***************************************************************************)
(* C29                                                                     *)
(***************************************************************************)
\* C29: in every state of the renderer the smoothing cache holds a position
\* for the left earring exactly when it holds one for the right earring.
C29_EarringPairInCache ==
    Truthy(smoothedPositions.earrings.left) <=> Truthy(smoothedPositions.earrings.right)

\* a render of earrings on a face that has the left ear landmark but not the
\* right one, as the first render on an empty cache
C29_Witness ==
    /\ IsRender
    /\ call.item.type = "earrings"
    /\ Truthy(CallTp.face)
    /\ Truthy(getLeftEarringPosition(CallTp.face))
    /\ ~Truthy(getRightEarringPosition(CallTp.face))
    /\ ~Truthy(pre.earrings.left)
    /\ ~Truthy(smoothedPositions.earrings.left)

(***************************************************************************)
(* C30                                                                     *)
(***************************************************************************)
\* C30, as stated: from resetFlow until the next selection of an item the
\* view is 'select' with no selected jewelry and no processed media, and the
\* 'results' view is never shown without a selected jewelry.
C30_ResetWins ==
    /\ app.sinceReset =>
          /\ app.currentView = "select"
          /\ app.selectedJewelry = NoItem
          /\ app.processedMedia = NoItem
    /\ app.currentView = "results" => app.selectedJewelry # NoItem

====
